---- MODULE Spec2Model ----
(***************************************************************************)
(* A model of the x402 payment core of a2a-x402-typescript: the local      *)
(* Algorand verifier and settler, the Algorand signer, the payment         *)
(* requirements builder and the task payment-state tracker.                *)
(*                                                                         *)
(* JavaScript strings whose text is parsed or compared (amounts, asset     *)
(* identifiers) are sequences of one-character strings, so that parseInt,  *)
(* BigInt and Number.toString are modelled by what they do.  Addresses and *)
(* network identifiers are only compared for equality and are TLA+ strings.*)
(* A signed-transaction envelope is the record of the fields of the        *)
(* decoded transaction; decodeSignedTransaction either yields that record  *)
(* or throws (line 427 of algorand-facilitator.ts: "algosdk validates      *)
(* signatures on decode").                                                 *)
(***************************************************************************)
EXTENDS Integers, Sequences, FiniteSets

VARIABLES
    payload,        \* the PaymentPayload handed to verify / settle: its scheme,
                    \* its network and the fields of its payload
    requirements,   \* the PaymentRequirements handed to verify / settle / sign
    lastRound,      \* the chain: status.lastRound of the algod node
    vres,           \* verify: the last call's VerifyResponse and node status, or None
    tampered,       \* verify: the requirements field changed after a valid verify
    txState,        \* the chain: where the payload's transaction is
    otherConfirmed, \* the chain: whether the other transaction id is in the ledger
    pc,             \* settle: the await point the call is at
    calls,          \* settle: the number of settle calls made
    sres,           \* settle: the SettleResponse of the call, or None
    prev,           \* settle: the SettleResponse of the call before, or None
    txId,           \* settle: the local txId
    startRound,     \* waitForConfirmation: startRound
    currentRound,   \* waitForConfirmation: currentRound
    sendOutcome,    \* settle: how the node answered sendRawTransaction
    polls,          \* settle: the pendingTransactionInformation calls made
    signer,         \* sign: account.address of the signing account
    signRes,        \* sign: whether processAlgorandPayment returned or threw
    signCall,       \* sign: the maxValue of the call and the node calls it made
    origin,         \* sign: the options the requirements were created from
    optInCall,      \* opt-in: the last isOptedIntoASA query, the answer of the
                    \* node and what the facilitator and the wallet returned
    paymentStatus,  \* tracker: the PaymentStatus recorded for each task
    settleResponse, \* tracker: the SettleResponse recorded for each task
    paymentMetadata,\* tracker: the requirements and payload kept for each task
    lastCall,       \* tracker: the last tracker call and whether it applied
    nfdCall,        \* nfd-resolver: the last call, the answer of the name
                    \* service and what the call returned or threw
    pendingPayment, \* client agent: state.pendingPayment, a stored requirement
    storedCount,    \* client agent: the requirements stored so far
    transfers,      \* client agent: the successful executePayment calls made
                    \* for each stored requirement
    confirm,        \* client agent: each confirmPayment invocation's await point
                    \* and locals
    confirms,       \* client agent: the confirmPayment invocations started
    orderCall       \* merchant agent: the last checkOrderStatus call

verifyVars == <<vres, tampered>>

chainVars == <<lastRound, txState, otherConfirmed>>

settleVars ==
    <<pc, calls, sres, prev, txId, startRound, currentRound, sendOutcome, polls>>

signVars == <<signer, signRes, signCall, origin, optInCall>>

trackerVars == <<paymentStatus, settleResponse, paymentMetadata, lastCall>>

coreVars ==
    <<payload, requirements, verifyVars, chainVars, settleVars, signVars,
      trackerVars>>

nfdVars == <<nfdCall>>

agentVars == <<pendingPayment, storedCount, transfers, confirm, confirms>>

merchantVars == <<orderCall>>

appVars == <<nfdVars, agentVars, merchantVars>>

vars == <<coreVars, appVars>>

None == [none |-> TRUE]

-----------------------------------------------------------------------------
(* Bounds of the model *)

MaxRound == 3
MaxAmount == 1
MaxCalls == 2
TxnLife == 1
MaxStored == 2
MaxConfirms == 3

-----------------------------------------------------------------------------
(* JavaScript string and number conversions *)

DecDigits == <<"0", "1", "2", "3", "4", "5", "6", "7", "8", "9">>

HexDigitsLower == DecDigits \o <<"a", "b", "c", "d", "e", "f">>

HexDigitsUpper == DecDigits \o <<"A", "B", "C", "D", "E", "F">>

\* The value of character c in the digit table, or -1
DigitIn(c, table) ==
    IF \E i \in 1..Len(table) : table[i] = c
    THEN (CHOOSE i \in 1..Len(table) : table[i] = c) - 1
    ELSE -1

DigitValue(c, radix) ==
    LET v == IF DigitIn(c, HexDigitsLower) >= 0 THEN DigitIn(c, HexDigitsLower)
             ELSE DigitIn(c, HexDigitsUpper)
    IN IF v >= 0 /\ v < radix THEN v ELSE -1

\* The length of the longest prefix of s made of digits of the radix
RECURSIVE DigitPrefixLen(_, _)
DigitPrefixLen(s, radix) ==
    IF s = <<>> \/ DigitValue(Head(s), radix) < 0 THEN 0
    ELSE 1 + DigitPrefixLen(Tail(s), radix)

RECURSIVE DigitsValue(_, _)
DigitsValue(s, radix) ==
    IF s = <<>> THEN 0
    ELSE DigitsValue(SubSeq(s, 1, Len(s) - 1), radix) * radix
         + DigitValue(s[Len(s)], radix)

\* Digit strings longer than this are numbers beyond Number.MAX_SAFE_INTEGER
\* in the model: 9 decimal digits, 7 hexadecimal digits
SafeDigits(radix) == IF radix = 16 THEN 7 ELSE 9

NaN == [kind |-> "nan", val |-> 0]

Num(n) == [kind |-> "int", val |-> n]

Unsafe == [kind |-> "big", val |-> 0]

IsHexPrefixed(s) == Len(s) >= 2 /\ s[1] = "0" /\ s[2] \in {"x", "X"}

\* parseInt(string): optional sign, optional 0x prefix, the longest digit
\* prefix; NaN when there is no digit
ParseIntJS(s) ==
    LET neg == s # <<>> /\ Head(s) = "-"
        body == IF s # <<>> /\ Head(s) \in {"-", "+"} THEN Tail(s) ELSE s
        radix == IF IsHexPrefixed(body) THEN 16 ELSE 10
        digits == IF radix = 16 THEN SubSeq(body, 3, Len(body)) ELSE body
        n == DigitPrefixLen(digits, radix)
    IN IF n = 0 THEN NaN
       ELSE IF n > SafeDigits(radix) THEN Unsafe
       ELSE Num((IF neg THEN -1 ELSE 1) * DigitsValue(SubSeq(digits, 1, n), radix))

\* BigInt(string): the whole string must be a literal; a SyntaxError otherwise
BigIntJS(s) ==
    LET neg == s # <<>> /\ Head(s) = "-"
        body == IF s # <<>> /\ Head(s) \in {"-", "+"} THEN Tail(s) ELSE s
        hex == IsHexPrefixed(body) /\ ~neg /\ body = s
        radix == IF hex THEN 16 ELSE 10
        digits == IF hex THEN SubSeq(body, 3, Len(body)) ELSE body
    IN IF s = <<>> THEN Num(0)
       ELSE IF digits = <<>> \/ DigitPrefixLen(digits, radix) # Len(digits)
       THEN [kind |-> "error", val |-> 0]
       ELSE IF Len(digits) > SafeDigits(radix) THEN Unsafe
       ELSE Num((IF neg THEN -1 ELSE 1) * DigitsValue(digits, radix))

\* Number.prototype.toString / BigInt.prototype.toString of an integer
RECURSIVE NatToString(_)
NatToString(n) ==
    IF n < 10 THEN <<DecDigits[n + 1]>>
    ELSE NatToString(n \div 10) \o <<DecDigits[(n % 10) + 1]>>

NumToString(n) == IF n < 0 THEN <<"-">> \o NatToString(-n) ELSE NatToString(n)

\* String(x) of a parseInt result inside a template string
NumberText(x) ==
    IF x.kind = "int" THEN NumToString(x.val)
    ELSE IF x.kind = "nan" THEN <<"N", "a", "N">>
    ELSE <<"1", "e", "+", "4", "6">>

\* s.endsWith(suffix)
EndsWith(s, suffix) ==
    /\ Len(s) >= Len(suffix)
    /\ SubSeq(s, Len(s) - Len(suffix) + 1, Len(s)) = suffix

\* s.includes(part)
Includes(s, part) ==
    \E i \in 1..(Len(s) - Len(part) + 1) :
        SubSeq(s, i, i + Len(part) - 1) = part

-----------------------------------------------------------------------------
(* Networks, addresses, assets *)

\* ALGORAND_NETWORKS: the networks with an algod configuration
ALGORAND_NETWORKS == {"algorand-mainnet", "algorand-testnet", "algorand-betanet"}

\* The network identifiers of the model: a configured Algorand network, an
\* identifier with the algorand- prefix and no configuration, an EVM network
Networks == {"algorand-testnet", "algorand-devnet", "base-sepolia"}

\* network.startsWith("algorand-")
isAlgorandNetwork(network) ==
    network \in ALGORAND_NETWORKS \cup {"algorand-devnet"}

Addrs == {"ADDR_A", "ADDR_B"}

\* The receiver of a transaction that carries none
NoAddr == ""

UsdcTestnet == 10458941

UsdcMainnet == 31566704

UsdcTestnetText == NumToString(UsdcTestnet)

\* USDC_ADDRESSES["base-sepolia"]
UsdcBaseSepolia ==
    <<"0", "x", "0", "3", "6", "C", "b", "D", "5", "3", "8", "4", "2", "c",
      "5", "4", "2", "6", "6", "3", "4", "e", "7", "9", "2", "9", "5", "4",
      "1", "e", "C", "2", "3", "1", "8", "f", "3", "d", "C", "F", "7", "e">>

\* Asset indexes a signed transaction may carry (0: none, the ALGO payment)
AssetIds == {0, UsdcTestnet}

\* requirements.asset as text: the ASA id, the same id written with a
\* leading zero, asset 0, an EVM contract address, a name that is no number
AssetTexts ==
    {UsdcTestnetText, <<"0">> \o UsdcTestnetText, <<"0">>, UsdcBaseSepolia,
     <<"u", "s", "d", "c">>}

\* requirements.maxAmountRequired / authorization.amount as text: the
\* canonical decimal strings and one with a leading zero
AmountTexts == {NumToString(n) : n \in 0..MaxAmount} \cup {<<"0", "1">>}

-----------------------------------------------------------------------------
(* Payloads and requirements *)

\* payload.signature is empty or undefined
AbsentSignature ==
    [form |-> "absent", snd |-> NoAddr, arcv |-> NoAddr, aamt |-> 0,
     xaid |-> 0, lv |-> 0]

\* payload.signature is base64 that decodeSignedTransaction rejects
MalformedSignature ==
    [form |-> "malformed", snd |-> NoAddr, arcv |-> NoAddr, aamt |-> 0,
     xaid |-> 0, lv |-> 0]

\* The signed asset-transfer transactions: sender, receiver (none when the
\* field is omitted), amount, asset index and last-valid round
SignedTxns ==
    [form : {"ok"}, snd : Addrs, arcv : Addrs \cup {NoAddr},
     aamt : 0..MaxAmount, xaid : AssetIds, lv : 0..MaxRound]

Signatures == SignedTxns \cup {AbsentSignature, MalformedSignature}

NoAuthorization ==
    [present |-> FALSE, from |-> NoAddr, to |-> NoAddr, amount |-> <<>>,
     assetId |-> 0]

Authorizations ==
    [present : {TRUE}, from : Addrs, to : Addrs, amount : AmountTexts,
     assetId : AssetIds]
    \cup {NoAuthorization}

\* txn.txID(): the identifier the chain computes from the transaction
AddrIndex(a) == IF a = "ADDR_A" THEN 1 ELSE IF a = "ADDR_B" THEN 2 ELSE 0

TxID(txn) ==
    1 + AddrIndex(txn.snd)
      + 3 * (AddrIndex(txn.arcv)
      + 3 * ((IF txn.xaid = 0 THEN 0 ELSE 1)
      + 2 * (txn.lv
      + (MaxRound + TxnLife + 1) * txn.aamt)))

\* An empty or missing payload.txnId
EmptyTxId == 0

\* A payload.txnId that names another transaction than the signed one
OtherTxId == 1000

-----------------------------------------------------------------------------
(* verifyAlgorandSignature and verifyAlgorandPayment *)

NoPayer == "none"

NoText == <<>>

Invalid_NoReason(payer, kind, expected, got) ==
    [isValid |-> FALSE, payer |-> payer,
     invalidReason |-> [kind |-> "none", expected |-> NoText, got |-> NoText]]

Invalid(payer, kind, expected, got) ==
    [isValid |-> FALSE, payer |-> payer,
     invalidReason |-> [kind |-> kind, expected |-> expected, got |-> got]]

Valid_NoPayer(payer) ==
    [isValid |-> TRUE, payer |-> NoPayer,
     invalidReason |-> [kind |-> "none", expected |-> NoText, got |-> NoText]]

Valid(payer) ==
    [isValid |-> TRUE, payer |-> payer,
     invalidReason |-> [kind |-> "none", expected |-> NoText, got |-> NoText]]

\* txn.to ? encodeAddress(txn.to) : (txn.receiver ? ... : fallback)
ReceiverOr(txn, fallback) == IF txn.arcv # NoAddr THEN txn.arcv ELSE fallback

\* (txn.assetAmount || txn.amount || txn.aamt || 0).toString()
AmountText(txn) == NumToString(txn.aamt)

\* Number(txn.lastRound || txn.lastValid || txn.lv): a last-valid round of 0
\* is falsy, so the chain of || ends in undefined and Number gives NaN
LastValidNumber(txn) == IF txn.lv = 0 THEN NaN ELSE Num(txn.lv)

\* a < b on JavaScript numbers: false when either side is NaN
LessThanJS(a, b) == a.kind = "int" /\ b.kind = "int" /\ a.val < b.val

\* a !== b on JavaScript numbers: NaN differs from everything
StrictNotEqualJS(a, b) ==
    ~(a.kind = "int" /\ b.kind = "int" /\ a.val = b.val)

verifyAlgorandSignature(p, expectedSender) ==
    LET txn == p.signature
        fromAddr == txn.snd
        toAddr == ReceiverOr(txn, p.authorization.to)
    IN IF txn.form # "ok" THEN FALSE
       ELSE IF fromAddr # expectedSender THEN FALSE
       ELSE IF toAddr # p.authorization.to THEN FALSE
       ELSE IF txn.xaid # 0 /\ txn.xaid = p.authorization.assetId
               /\ AmountText(txn) # p.authorization.amount THEN FALSE
       ELSE TRUE

\* The answer of client.status().do(): the node's last round, or a failure
StatusOk(round) == [ok |-> TRUE, lastRound |-> round]

StatusFailed == [ok |-> FALSE, lastRound |-> 0]

NoMismatch == [isValid |-> TRUE, payer |-> NoPayer,
               invalidReason |-> [kind |-> "none", expected |-> NoText,
                                  got |-> NoText]]

\* The amount is checked before the recipient
FieldChecks_AmountFirst(txn, r, payer) ==
    LET toAddr == ReceiverOr(txn, NoAddr)
        txnAmount == AmountText(txn)
        expectedAssetId == ParseIntJS(r.asset)
        txnAssetId == Num(txn.xaid)
    IN IF txnAmount # r.maxAmountRequired
       THEN Invalid(payer, "Amount mismatch", r.maxAmountRequired, txnAmount)
       ELSE IF toAddr # r.payTo
       THEN Invalid(payer, "Recipient mismatch", <<r.payTo>>, <<toAddr>>)
       ELSE IF StrictNotEqualJS(txnAssetId, expectedAssetId)
       THEN Invalid(payer, "Asset ID mismatch", NumberText(expectedAssetId),
                    NumberText(txnAssetId))
       ELSE NoMismatch

\* The amounts are compared as numbers, not as strings
FieldChecks_NumericAmount(txn, r, payer) ==
    LET toAddr == ReceiverOr(txn, NoAddr)
        txnAmount == AmountText(txn)
        expectedAssetId == ParseIntJS(r.asset)
        txnAssetId == Num(txn.xaid)
    IN IF toAddr # r.payTo
       THEN Invalid(payer, "Recipient mismatch", <<r.payTo>>, <<toAddr>>)
       ELSE IF ParseIntJS(txnAmount) # ParseIntJS(r.maxAmountRequired)
       THEN Invalid(payer, "Amount mismatch", r.maxAmountRequired, txnAmount)
       ELSE IF StrictNotEqualJS(txnAssetId, expectedAssetId)
       THEN Invalid(payer, "Asset ID mismatch", NumberText(expectedAssetId),
                    NumberText(txnAssetId))
       ELSE NoMismatch

\* verifyAlgorandPayment, "Verify transaction details match requirements":
\* the recipient, then the amount, then the asset id; the first mismatch
FieldChecks(txn, r, payer) ==
    LET toAddr == ReceiverOr(txn, NoAddr)
        txnAmount == AmountText(txn)
        expectedAssetId == ParseIntJS(r.asset)
        txnAssetId == Num(txn.xaid)
    IN IF toAddr # r.payTo
       THEN Invalid(payer, "Recipient mismatch", <<r.payTo>>, <<toAddr>>)
       ELSE IF txnAmount # r.maxAmountRequired
       THEN Invalid(payer, "Amount mismatch", r.maxAmountRequired, txnAmount)
       ELSE IF StrictNotEqualJS(txnAssetId, expectedAssetId)
       THEN Invalid(payer, "Asset ID mismatch", NumberText(expectedAssetId),
                    NumberText(txnAssetId))
       ELSE NoMismatch

\* verifyAlgorandPayment(payload, requirements), given the answer the node
\* gives to the status call when the call gets that far
verifyAlgorandPayment(p, r, status) ==
    LET txn == p.signature
        payer == txn.snd
        statusRound == Num(status.lastRound)
        lastValidRound == LastValidNumber(txn)
    IN IF ~isAlgorandNetwork(r.network)
       THEN Invalid(NoPayer, "Not an Algorand network", NoText, NoText)
       ELSE IF txn.form = "absent" \/ ~p.authorization.present
       THEN Invalid(NoPayer, "Missing signature or authorization", NoText, NoText)
       ELSE IF txn.form = "malformed"
       THEN Invalid(NoPayer, "Verification error", NoText, NoText)
       ELSE IF ~verifyAlgorandSignature(p, payer)
       THEN Invalid(payer, "Invalid signature", NoText, NoText)
       ELSE IF ~FieldChecks(txn, r, payer).isValid
       THEN FieldChecks(txn, r, payer)
       ELSE IF r.network \notin ALGORAND_NETWORKS \/ ~status.ok
       THEN Invalid(NoPayer, "Verification error", NoText, NoText)
       ELSE IF LessThanJS(lastValidRound, statusRound)
       THEN Invalid(payer, "Transaction expired", NumberText(lastValidRound),
                    NumberText(statusRound))
       ELSE Valid(payer)

-----------------------------------------------------------------------------
(* The algod node and the chain behind it *)

\* The chain produces a block.  A transaction in the pool is included in it,
\* stays in the pool, or is dropped with a pool error; past its last-valid
\* round it can only be dropped.
NewBlock ==
    /\ lastRound < MaxRound
    /\ lastRound' = lastRound + 1
    /\ IF txState = "pool"
       THEN txState' \in
               (IF payload.signature.lv >= lastRound + 1
                THEN {"pool", "ledger"} ELSE {}) \cup {"rejected"}
       ELSE txState' = txState
    /\ UNCHANGED <<appVars, signVars, trackerVars, payload, requirements, verifyVars, otherConfirmed, settleVars>>

\* The answers of client.sendRawTransaction(signedTxnBytes).do(): the
\* transaction id, an error saying the transaction is already in the ledger, a
\* refusal (dead transaction, overspend, no opt-in), an unreachable node
SendAnswers ==
    {"unreachable"}
    \cup (IF txState \in {"pool", "ledger"} THEN {"already in ledger"}
          ELSE IF payload.signature.lv >= lastRound THEN {"accepted", "refused"}
          ELSE {"refused"})

\* Where the node finds transaction id
StateOfTx(id) ==
    IF id # EmptyTxId /\ id = TxID(payload.signature) THEN txState
    ELSE IF id = OtherTxId /\ otherConfirmed THEN "ledger"
    ELSE "unknown"

NotFoundText == <<"n", "o", "t", " ", "f", "o", "u", "n", "d">>

\* The pool errors of a dropped transaction: a text without "not found" and
\* a text with it
PoolErrors == {<<"d", "e", "a", "d">>, <<"a", "s", "a", " ">> \o NotFoundText}

PendingInfo(kind, text) == [kind |-> kind, text |-> text]

\* The answers of client.pendingTransactionInformation(txId).do(): a
\* confirmed round, a pool error, neither, or an error of the request with
\* its message
PendingAnswers(id) ==
    {PendingInfo("unreachable", <<"E", "C", "O", "N", "N">>)}
    \cup (IF StateOfTx(id) = "ledger" THEN {PendingInfo("confirmed", NoText)}
          ELSE IF StateOfTx(id) = "pool" THEN {PendingInfo("pending", NoText)}
          ELSE IF StateOfTx(id) = "rejected"
          THEN {PendingInfo("pool error", e) : e \in PoolErrors}
          ELSE {PendingInfo("not found", NotFoundText)})

-----------------------------------------------------------------------------
(* settleAlgorandPayment: the responses and the state of a call *)

NoTransaction == -1

Failure(network, payer, kind, detail) ==
    [success |-> FALSE, transaction |-> NoTransaction, network |-> network,
     payer |-> payer, errorReason |-> [kind |-> kind, detail |-> detail]]

Success(network, payer, transaction) ==
    [success |-> TRUE, transaction |-> transaction, network |-> network,
     payer |-> payer, errorReason |-> [kind |-> "none", detail |-> "none"]]

\* No settle call is in progress and none was made
SettleIdle ==
    /\ pc = "idle"
    /\ calls = 0
    /\ sres = None
    /\ prev = None
    /\ txId = EmptyTxId
    /\ startRound = 0
    /\ currentRound = 0
    /\ sendOutcome = "none"
    /\ polls = 0

\* processAlgorandPayment was not called
SignIdle ==
    /\ signer = NoAddr
    /\ signRes = "none"
    /\ signCall = None
    /\ origin = None
    /\ optInCall = None

Tasks == {"task-1", "task-2"}

\* No task has a payment recorded and no tracker call was made
TrackerIdle ==
    /\ paymentStatus = [t \in Tasks |-> "NoPayment"]
    /\ settleResponse = [t \in Tasks |-> None]
    /\ paymentMetadata = [t \in Tasks |-> [requirements |-> None, payload |-> None]]
    /\ lastCall = None

\* No call of the NFD resolver was made
NfdIdle == nfdCall = None

\* The confirmPayment invocations that can be in progress at once
Invocations == {1, 2}

\* A confirmPayment invocation that is not running and has not run
NotStarted ==
    [pc |-> "idle", req |-> 0, paid |-> FALSE, overlapped |-> FALSE,
     result |-> "none"]

\* The client agent after its module is loaded: const state = {}
AgentIdle ==
    /\ pendingPayment = 0
    /\ storedCount = 0
    /\ transfers = <<>>
    /\ confirm = [i \in Invocations |-> NotStarted]
    /\ confirms = 0

\* The merchant agent's checkOrderStatus was not called
MerchantIdle == orderCall = None

AppIdle == NfdIdle /\ AgentIdle /\ MerchantIdle

-----------------------------------------------------------------------------
(* Calls of verifyAlgorandPayment on arbitrary payloads and requirements *)

TimeoutSeconds == {4, 9}

DefaultScheme == "exact"

\* The schemes a PaymentPayload may name
Schemes == {"exact", "upto"}

RequirementsSet ==
    [scheme : {DefaultScheme}, network : Networks, payTo : Addrs,
     maxAmountRequired : AmountTexts, asset : AssetTexts,
     maxTimeoutSeconds : TimeoutSeconds]

NotTampered == [field |-> "none", old |-> NoText]

\* Every payload against requirements of the configured Algorand network; a
\* signed transaction of each form against the other networks; payloads that
\* name the scheme and network of the requirements, and payloads of ADDR_A
\* that name another scheme or network; authorizations from ADDR_A, and from
\* ADDR_B where they name the receiver and amount of the requirements
InitVerify ==
    /\ requirements \in RequirementsSet
    /\ requirements.maxTimeoutSeconds = 9
    /\ payload \in [scheme : Schemes, network : Networks,
                    signature : Signatures, authorization : Authorizations,
                    txnId : {EmptyTxId}]
    /\ \/ /\ payload.scheme = requirements.scheme
          /\ payload.network = requirements.network
       \/ /\ requirements.network = "algorand-testnet"
          /\ payload.signature.form = "ok"
          /\ payload.signature.snd = "ADDR_A"
          /\ payload.signature.lv = MaxRound
          /\ payload.authorization.present
          /\ payload.authorization.to = requirements.payTo
          /\ payload.authorization.amount = requirements.maxAmountRequired
    /\ \/ ~payload.authorization.present
       \/ payload.authorization.from = "ADDR_A"
       \/ /\ requirements.network = "algorand-testnet"
          /\ payload.authorization.to = requirements.payTo
          /\ payload.authorization.amount = requirements.maxAmountRequired
    /\ \/ requirements.network = "algorand-testnet"
       \/ /\ payload.signature.snd # "ADDR_B"
          /\ payload.signature.arcv = requirements.payTo
          /\ payload.authorization.present
          /\ payload.authorization.to = requirements.payTo
          /\ payload.authorization.amount = requirements.maxAmountRequired
          /\ requirements.asset = UsdcTestnetText
    /\ lastRound \in 1..MaxRound
    /\ vres = None
    /\ tampered = NotTampered
    /\ SettleIdle
    /\ txState = "unknown"
    /\ otherConfirmed = FALSE
    /\ SignIdle
    /\ TrackerIdle
    /\ AppIdle

\* await verifyAlgorandPayment(payload, requirements)
VerifyCall ==
    /\ vres = None
    /\ \E status \in {StatusOk(lastRound), StatusFailed} :
          vres' = [response |-> verifyAlgorandPayment(payload, requirements, status),
                   status |-> status]
    /\ UNCHANGED <<appVars, signVars, trackerVars, payload, requirements, chainVars, tampered, settleVars>>

\* The caller changes one of payTo, maxAmountRequired and asset in the
\* requirements that verified, and keeps the payload
TamperRequirements ==
    /\ vres # None
    /\ vres.response.isValid
    /\ tampered = NotTampered
    /\ \/ \E a \in Addrs \ {requirements.payTo} :
            /\ requirements' = [requirements EXCEPT !.payTo = a]
            /\ tampered' = [field |-> "payTo", old |-> <<requirements.payTo>>]
       \/ \E t \in AmountTexts \ {requirements.maxAmountRequired} :
            /\ requirements' = [requirements EXCEPT !.maxAmountRequired = t]
            /\ tampered' = [field |-> "maxAmountRequired",
                            old |-> requirements.maxAmountRequired]
       \/ \E t \in AssetTexts \ {requirements.asset} :
            /\ requirements' = [requirements EXCEPT !.asset = t]
            /\ tampered' = [field |-> "asset", old |-> requirements.asset]
    /\ vres' = None
    /\ UNCHANGED <<appVars, signVars, trackerVars, payload, chainVars, settleVars>>

NextVerify ==
    \/ VerifyCall
    \/ TamperRequirements
    \/ NewBlock /\ vres = None

VerifySpec == InitVerify /\ [][NextVerify]_vars

-----------------------------------------------------------------------------
(* Properties of verifyAlgorandPayment *)

Verified == vres # None /\ vres.response.isValid

Reason == vres.response.invalidReason

Envelope == payload.signature

RecipientMatches == Envelope.arcv = requirements.payTo

AmountMatches == NumToString(Envelope.aamt) = requirements.maxAmountRequired

AssetMatches == ParseIntJS(requirements.asset) = Num(Envelope.xaid)

StructureAndSignatureOk ==
    /\ Envelope.form = "ok"
    /\ payload.authorization.present
    /\ verifyAlgorandSignature(payload, Envelope.snd)

\* C2: whenever verify answers isValid:true, the decoded envelope has the
\* receiver, the amount and the asset index of the requirements, and its
\* last-valid round is not below the round the node reported in that call.
C2_VerifiedEnvelopeMatches ==
    Verified =>
        /\ Envelope.form = "ok"
        /\ Envelope.arcv = requirements.payTo
        /\ ParseIntJS(requirements.maxAmountRequired) = Num(Envelope.aamt)
        /\ ParseIntJS(requirements.asset) = Num(Envelope.xaid)
        /\ vres.status.ok
        /\ Envelope.lv >= vres.status.lastRound

\* The field of the requirements an invalidReason names
NamedField(kind) ==
    IF kind = "Recipient mismatch" THEN "payTo"
    ELSE IF kind = "Amount mismatch" THEN "maxAmountRequired"
    ELSE IF kind = "Asset ID mismatch" THEN "asset"
    ELSE "none"

TamperedAndVerifiedAgain == tampered # NotTampered /\ vres # None

\* C8 as stated: after requirements that verified have payTo,
\* maxAmountRequired or asset changed to any different value, verify of the
\* same payload answers isValid:false with a reason naming that field.
C8_TamperAnyDifferentValue ==
    TamperedAndVerifiedAgain =>
        /\ ~vres.response.isValid
        /\ NamedField(Reason.kind) = tampered.field

\* C8 amended: the same, where a changed asset counts as changed when it
\* parses (parseInt) to a different number.
C8_TamperDetected ==
    (/\ TamperedAndVerifiedAgain
     /\ tampered.field = "asset"
            => ParseIntJS(requirements.asset) # ParseIntJS(tampered.old))
        => /\ ~vres.response.isValid
           /\ NamedField(Reason.kind) = tampered.field

C8_Witness ==
    /\ TamperedAndVerifiedAgain
    /\ tampered.field = "maxAmountRequired"
    /\ ParseIntJS(requirements.maxAmountRequired) = ParseIntJS(tampered.old)
    /\ Reason.kind = "Amount mismatch"

\* C9: a signed payload whose last-valid round is below the round the node
\* reports never verifies, and where the checks that come before the
\* expiration check pass, the reason is the expiration reason with both
\* rounds.
C9_ExpiredNeverValid ==
    (/\ vres # None
     /\ vres.status.ok
     /\ requirements.network \in ALGORAND_NETWORKS
     /\ Envelope.form = "ok"
     /\ Envelope.lv < vres.status.lastRound)
        => /\ ~vres.response.isValid
           /\ (StructureAndSignatureOk /\ RecipientMatches /\ AmountMatches
               /\ AssetMatches)
                 => /\ Reason.kind = "Transaction expired"
                    /\ Reason.expected = NumToString(Envelope.lv)
                    /\ Reason.got = NumToString(vres.status.lastRound)

\* C10: verify reports the first failing check in the order structure and
\* signature, recipient, amount, asset, expiration: a reported mismatch
\* means every earlier check passed and that one failed, and a payload that
\* fails any of the first four checks is never valid.
C10_FirstFailingCheck ==
    (vres # None /\ requirements.network \in ALGORAND_NETWORKS) =>
        /\ ~StructureAndSignatureOk =>
              /\ ~vres.response.isValid
              /\ Reason.kind \in {"Missing signature or authorization",
                                  "Verification error", "Invalid signature"}
        /\ (StructureAndSignatureOk /\ ~RecipientMatches) =>
              Reason.kind = "Recipient mismatch"
        /\ (StructureAndSignatureOk /\ RecipientMatches /\ ~AmountMatches) =>
              Reason.kind = "Amount mismatch"
        /\ (StructureAndSignatureOk /\ RecipientMatches /\ AmountMatches
            /\ ~AssetMatches) =>
              Reason.kind = "Asset ID mismatch"
        /\ Reason.kind = "Transaction expired" =>
              /\ StructureAndSignatureOk /\ RecipientMatches
              /\ AmountMatches /\ AssetMatches
              /\ Envelope.lv < vres.status.lastRound

\* Recipient, amount, asset and expiration all fail at once
C10_Witness ==
    /\ vres # None
    /\ requirements.network \in ALGORAND_NETWORKS
    /\ StructureAndSignatureOk
    /\ ~RecipientMatches /\ ~AmountMatches /\ ~AssetMatches
    /\ Envelope.lv # 0 /\ Envelope.lv < vres.status.lastRound
    /\ Reason.kind = "Recipient mismatch"

\* C20: a payload whose scheme or network differs from the scheme or network
\* of the requirements never verifies.
C20_SchemeAndNetworkMatched ==
    (/\ vres # None
     /\ \/ payload.scheme # requirements.scheme
        \/ payload.network # requirements.network)
        => ~vres.response.isValid

\* C30: in every valid answer the authorization of the payload names the
\* sender, the receiver, the amount and the asset of the signed transaction.
C30_AuthorizationMirrorsEnvelope ==
    Verified =>
        /\ payload.authorization.from = Envelope.snd
        /\ payload.authorization.to = Envelope.arcv
        /\ payload.authorization.amount = AmountText(Envelope)
        /\ payload.authorization.assetId = Envelope.xaid

\* The reasons that come from looking at the payload
PayloadCheckKinds ==
    {"Missing signature or authorization", "Invalid signature",
     "Recipient mismatch", "Amount mismatch", "Asset ID mismatch",
     "Transaction expired"}

\* C22: for requirements whose network has no configuration, verification
\* answers with the network's rejection whatever the payload is: no check of
\* the payload decides the response.
C22_UnconfiguredNetworkRejectedFirst ==
    (vres # None /\ requirements.network \notin ALGORAND_NETWORKS) =>
        /\ ~vres.response.isValid
        /\ vres.response.invalidReason.kind \notin PayloadCheckKinds
        /\ payload.signature.form # "malformed"
              => vres.response = verifyAlgorandPayment(
                                     [payload EXCEPT !.signature = MalformedSignature],
                                     requirements, vres.status)

\* The call decoded the signed envelope: the network passed the guard, the
\* signature and the authorization are there and the signature decodes
EnvelopeDecoded ==
    /\ isAlgorandNetwork(requirements.network)
    /\ payload.signature.form = "ok"
    /\ payload.authorization.present

\* C34: a VerifyResponse has a payer only when the call decoded the signed
\* envelope, so none for a network that is not Algorand-family, a missing
\* signature or authorization, or a signature that does not decode; and a
\* valid response has the sender of the envelope as payer.
C34_PayerOnlyAfterDecoding ==
    vres # None =>
        /\ vres.response.payer # NoPayer => EnvelopeDecoded
        /\ vres.response.payer # NoPayer
              => vres.response.payer = payload.signature.snd
        /\ vres.response.isValid
              => /\ vres.response.payer # NoPayer
                 /\ vres.response.payer = payload.signature.snd

\* an invalid response that names the payer, the envelope having decoded
C34_Witness ==
    /\ vres # None
    /\ EnvelopeDecoded
    /\ ~vres.response.isValid
    /\ vres.response.invalidReason.kind = "Recipient mismatch"
    /\ vres.response.payer = payload.signature.snd
    /\ vres.response.payer = "ADDR_A"

-----------------------------------------------------------------------------
(* settleAlgorandPayment and waitForConfirmation, await by await *)

\* The loop runs for as many rounds as the timeout has seconds
RoundsFor_Seconds(seconds) == seconds

\* Math.ceil(seconds / 4.5)
RoundsFor(seconds) == (2 * seconds + 8) \div 9

\* Submission goes ahead whatever verification said
MaySubmit_Always(verifyResult) == TRUE

\* settleAlgorandPayment: "if (!verifyResult.isValid) return"
MaySubmit(verifyResult) == verifyResult.isValid

\* Every submission error is thrown on
SubmitOutcome_Rethrow(answer, p) ==
    IF answer = "accepted"
    THEN [threw |-> FALSE, txId |-> TxID(p.signature)]
    ELSE [threw |-> TRUE, txId |-> EmptyTxId]

\* settleAlgorandPayment: the try / catch around sendRawTransaction
SubmitOutcome(answer, p) ==
    IF answer = "accepted"
    THEN [threw |-> FALSE, txId |-> TxID(p.signature)]
    ELSE IF answer = "already in ledger"
    THEN [threw |-> FALSE, txId |-> p.txnId]
    ELSE [threw |-> TRUE, txId |-> EmptyTxId]

\* The payloads settle is called with: a transaction signed by ADDR_A for the
\* requirements, one to another receiver, one of each last-valid round, an
\* undecodable one; txnId is the transaction's id, empty, or another id
SettleSignatures ==
    {t \in SignedTxns : t.snd = "ADDR_A" /\ t.aamt = 1 /\ t.xaid = UsdcTestnet
                        /\ t.arcv \in Addrs}
    \cup {MalformedSignature}

Init ==
    /\ requirements \in RequirementsSet
    /\ requirements.payTo = "ADDR_B"
    /\ requirements.maxAmountRequired = NumToString(1)
    /\ requirements.asset = UsdcTestnetText
    /\ payload \in [scheme : {requirements.scheme},
                    network : {requirements.network},
                    signature : SettleSignatures,
                    authorization : {[present |-> TRUE, from |-> "ADDR_A",
                                      to |-> "ADDR_B",
                                      amount |-> NumToString(1),
                                      assetId |-> UsdcTestnet]},
                    txnId : {EmptyTxId, OtherTxId} \cup
                            {TxID(t) : t \in SettleSignatures}]
    /\ payload.txnId \in {EmptyTxId, OtherTxId, TxID(payload.signature)}
    /\ lastRound \in 1..MaxRound
    /\ txState \in {"unknown", "ledger"}
    /\ txState = "ledger" =>
          /\ payload.signature.form = "ok"
          /\ payload.signature.lv # 0
    /\ otherConfirmed \in BOOLEAN
    /\ vres = None
    /\ tampered = NotTampered
    /\ SettleIdle
    /\ SignIdle
    /\ TrackerIdle
    /\ AppIdle

\* settleAlgorandPayment up to the submission: the network check and the
\* awaited verifyAlgorandPayment
SettleBegin ==
    /\ pc = "idle"
    /\ calls < MaxCalls
    /\ calls' = calls + 1
    /\ IF ~isAlgorandNetwork(requirements.network)
       THEN /\ sres' = Failure(requirements.network, NoPayer,
                               "Not an Algorand network", "none")
            /\ pc' = "done"
            /\ vres' = None
       ELSE \E status \in {StatusOk(lastRound), StatusFailed} :
               LET verifyResult ==
                       verifyAlgorandPayment(payload, requirements, status)
               IN /\ vres' = [response |-> verifyResult, status |-> status]
                  /\ IF MaySubmit(verifyResult)
                     THEN /\ sres' = None
                          /\ pc' = "submit"
                     ELSE /\ sres' = Failure(requirements.network,
                                             verifyResult.payer,
                                             "Verification failed",
                                             verifyResult.invalidReason.kind)
                          /\ pc' = "done"
    /\ UNCHANGED <<appVars, signVars, trackerVars, payload, requirements, tampered, chainVars, prev, txId,
                   startRound, currentRound, sendOutcome, polls>>

\* await client.sendRawTransaction(signedTxnBytes).do()
SettleSubmit ==
    /\ pc = "submit"
    /\ \E answer \in SendAnswers :
          LET outcome == SubmitOutcome(answer, payload)
          IN /\ sendOutcome' = answer
             /\ txState' = IF answer = "accepted" THEN "pool" ELSE txState
             /\ IF outcome.threw
                THEN /\ sres' = Failure(requirements.network, NoPayer,
                                        "Settlement error", answer)
                     /\ pc' = "done"
                     /\ txId' = txId
                ELSE /\ sres' = sres
                     /\ pc' = "confirm"
                     /\ txId' = outcome.txId
    /\ UNCHANGED <<appVars, signVars, trackerVars, payload, requirements, verifyVars, lastRound, otherConfirmed,
                   calls, prev, startRound, currentRound, polls>>

ConfirmationFailed(detail) ==
    Failure(requirements.network, vres.response.payer,
            "Transaction submission succeeded but confirmation failed", detail)

\* waitForConfirmation: await client.status().do()
WaitStart ==
    /\ pc = "confirm"
    /\ \/ /\ startRound' = lastRound
          /\ currentRound' = lastRound
          /\ pc' = "poll"
          /\ sres' = sres
       \/ /\ sres' = ConfirmationFailed("unreachable")
          /\ pc' = "done"
          /\ UNCHANGED <<startRound, currentRound>>
    /\ UNCHANGED <<appVars, signVars, trackerVars, payload, requirements, verifyVars, chainVars, calls, prev,
                   txId, sendOutcome, polls>>

\* waitForConfirmation, the catch of a poll: e.message?.includes("not found")
Swallowed(message) == Includes(message, NotFoundText)

\* The message of the error thrown inside the try block of a poll, or no
\* text when nothing is thrown
PollError(info) ==
    IF info.kind = "pool error"
    THEN <<"T", "r", "a", "n", "s", "a", "c", "t", "i", "o", "n", " ",
           "r", "e", "j", "e", "c", "t", "e", "d", ":", " ">> \o info.text
    ELSE info.text

\* waitForConfirmation: the loop test and
\* await client.pendingTransactionInformation(txId).do()
WaitPoll ==
    /\ pc = "poll"
    /\ IF currentRound < startRound + RoundsFor(requirements.maxTimeoutSeconds)
       THEN \E info \in PendingAnswers(txId) :
               /\ polls' = polls + 1
               /\ IF info.kind = "confirmed"
                  THEN /\ sres' = Success(requirements.network,
                                          vres.response.payer, txId)
                       /\ pc' = "done"
                  ELSE IF PollError(info) = NoText \/ Swallowed(PollError(info))
                  THEN /\ sres' = sres
                       /\ pc' = "block"
                  ELSE /\ sres' = ConfirmationFailed(
                                      IF info.kind = "pool error"
                                      THEN "Transaction rejected"
                                      ELSE "unreachable")
                       /\ pc' = "done"
       ELSE /\ sres' = ConfirmationFailed("Transaction not confirmed")
            /\ pc' = "done"
            /\ polls' = polls
    /\ UNCHANGED <<appVars, signVars, trackerVars, payload, requirements, verifyVars, chainVars, calls, prev,
                   txId, startRound, currentRound, sendOutcome>>

\* waitForConfirmation: await client.statusAfterBlock(currentRound).do(),
\* which answers once the round has passed or the node's own wait has run out
WaitBlock ==
    /\ pc = "block"
    /\ \/ /\ currentRound' = currentRound + 1
          /\ pc' = "poll"
          /\ sres' = sres
       \/ /\ sres' = ConfirmationFailed("unreachable")
          /\ pc' = "done"
          /\ currentRound' = currentRound
    /\ UNCHANGED <<appVars, signVars, trackerVars, payload, requirements, verifyVars, chainVars, calls, prev,
                   txId, startRound, sendOutcome, polls>>

\* The caller has the response and may call settle again with the same
\* payload and requirements
SettleReturn ==
    /\ pc = "done"
    /\ calls < MaxCalls
    /\ prev' = sres
    /\ sres' = None
    /\ pc' = "idle"
    /\ vres' = None
    /\ txId' = EmptyTxId
    /\ startRound' = 0
    /\ currentRound' = 0
    /\ sendOutcome' = "none"
    /\ polls' = 0
    /\ UNCHANGED <<appVars, signVars, trackerVars, payload, requirements, tampered, chainVars, calls>>

Next ==
    \/ SettleBegin
    \/ SettleSubmit
    \/ WaitStart
    \/ WaitPoll
    \/ WaitBlock
    \/ SettleReturn
    \/ NewBlock

Spec == Init /\ [][Next]_vars

\* The settle call where every awaited node call returns: each await point
\* of the call is eventually passed
LiveSpec ==
    /\ Init
    /\ [][Next]_vars
    /\ WF_vars(SettleSubmit)
    /\ WF_vars(WaitStart)
    /\ WF_vars(WaitPoll)
    /\ WF_vars(WaitBlock)

-----------------------------------------------------------------------------
(* Properties of settleAlgorandPayment *)

VerifiedInThisCall == vres # None /\ vres.response.isValid

\* C1: the signed transaction is submitted, and confirmation polled, only
\* after verifyAlgorandPayment of the same call answered isValid:true; a call
\* whose verification failed, or whose network is not an Algorand network,
\* ends with no submission and no poll.
C1_SubmitOnlyAfterVerified ==
    /\ (pc \in {"submit", "confirm", "poll", "block"} \/ sendOutcome # "none"
        \/ polls > 0)
          => /\ VerifiedInThisCall
             /\ isAlgorandNetwork(requirements.network)
    /\ (pc = "done" /\ ~VerifiedInThisCall)
          => /\ sendOutcome = "none"
             /\ polls = 0
             /\ ~sres.success

C1_Witness ==
    /\ pc = "done"
    /\ VerifiedInThisCall
    /\ sendOutcome = "accepted"
    /\ polls > 0
    /\ sres.success

\* The node answered every call of the settle call that has ended
NodeAnswered == sres.errorReason.detail \notin {"unreachable", "Verification error"}

\* C5: a settle call made after a call that returned success:true, with the
\* same payload and requirements, returns success with the same transaction
\* id (where the node answers its calls).
C5_SecondSettleSameTransaction ==
    (pc = "done" /\ prev # None /\ prev.success /\ NodeAnswered)
        => /\ sres.success
           /\ sres.transaction = prev.transaction

\* C6: an "already in ledger" answer to the submission is no failure: txId is
\* payload.txnId and the call goes on to confirmation as after an accepted
\* submission; every other submission error ends the call with success:false.
C6_AlreadyInLedgerRecovered ==
    /\ sendOutcome = "already in ledger"
          => /\ txId = payload.txnId
             /\ pc \in {"confirm", "poll", "block", "done"}
             /\ pc = "done" =>
                   \/ sres.success /\ sres.transaction = payload.txnId
                   \/ sres.errorReason.kind =
                        "Transaction submission succeeded but confirmation failed"
    /\ sendOutcome = "accepted"
          => /\ txId = TxID(payload.signature)
             /\ pc \in {"confirm", "poll", "block", "done"}
    /\ sendOutcome \in {"refused", "unreachable"}
          => /\ pc = "done"
             /\ ~sres.success
             /\ sres.errorReason.kind = "Settlement error"
             /\ polls = 0

C6_Witness ==
    /\ sendOutcome = "already in ledger"
    /\ pc = "done"
    /\ polls > 0
    /\ sres.success
    /\ sres.transaction = payload.txnId

\* The budget of rounds the claim states: ceil(maxTimeoutSeconds / 4.5)
PollBudget == IF requirements.maxTimeoutSeconds = 4 THEN 1 ELSE 2

InConfirmation == pc \in {"confirm", "poll", "block"}

TimedOut ==
    /\ pc = "done"
    /\ sres.errorReason.detail = "Transaction not confirmed"

C12_SuccessOnlyWhenConfirmed ==
    pc = "done" =>
        /\ sres.network = requirements.network
        /\ sres.success =>
              /\ VerifiedInThisCall
              /\ polls > 0
              /\ txState = "ledger"
              /\ sres.transaction = TxID(payload.signature)
              /\ sres.payer = vres.response.payer
              /\ sres.payer = payload.signature.snd
        /\ ~sres.success =>
              /\ sres.transaction = NoTransaction
              /\ sres.errorReason.kind # "none"

\* The reasons of a payload that is invalid against the requirements
ProtocolKinds ==
    {"Invalid signature", "Recipient mismatch", "Amount mismatch",
     "Asset ID mismatch", "Transaction expired"}

\* What a caller reads of a settle response without reading its reason
Category(res) ==
    [success |-> res.success, transaction |-> res.transaction,
     network |-> res.network, payer |-> res.payer]

\* What a caller reads of a verify response without reading its reason
VerifyCategory(v) == [isValid |-> v.isValid, payer |-> v.payer]

\* The response of a settle call that failed because the node did not
\* answer: the send, a call of waitForConfirmation, or the status call of
\* verification
TransportFailure(res) ==
    /\ res # None
    /\ ~res.success
    /\ \/ res.errorReason.detail = "unreachable"
       \/ /\ res.errorReason.detail = "Verification error"
          /\ payload.signature.form = "ok"
          /\ requirements.network \in ALGORAND_NETWORKS

\* The response of a settle call whose payload was invalid
ProtocolInvalid(res) ==
    /\ res # None
    /\ ~res.success
    /\ res.errorReason.kind = "Verification failed"
    /\ res.errorReason.detail \in ProtocolKinds

\* Verification failed at its status call
VerifyTransportFailure ==
    /\ vres # None
    /\ vres.response.invalidReason.kind = "Verification error"
    /\ payload.signature.form = "ok"
    /\ requirements.network \in ALGORAND_NETWORKS

\* C21: the response of a verify or settle call that failed because the node
\* was unreachable differs, in the fields other than the reason, from every
\* response that reports an invalid payload (signature, recipient, amount,
\* asset, expiry).
C21_TransportFailureDistinct ==
    /\ \A a, b \in {prev, sres} :
          TransportFailure(a) /\ ProtocolInvalid(b)
              => Category(a) # Category(b)
    /\ VerifyTransportFailure =>
          \A sig \in SettleSignatures :
             LET v == verifyAlgorandPayment([payload EXCEPT !.signature = sig],
                                            requirements, StatusOk(lastRound))
             IN v.invalidReason.kind \in ProtocolKinds
                   => VerifyCategory(v) # VerifyCategory(vres.response)

\* C27: when a settle call returns success:false, the transaction was not
\* taken by the node in that call, or it was dropped: it is neither waiting
\* in the pool nor in the ledger because of the call.
C27_FailureMeansNotCharged ==
    (pc = "done" /\ ~sres.success /\ sendOutcome = "accepted")
        => txState = "rejected"

\* C28: a poll that finds the transaction dropped with a pool error ends the
\* wait at that poll with 'Transaction rejected' (or with the failure of the
\* request): the loop never goes on to the next round after it.
C28_PoolErrorStopsPolling ==
    [][(pc = "poll" /\ polls' = polls + 1 /\ StateOfTx(txId) = "rejected")
          => /\ pc' = "done"
             /\ sres'.errorReason.detail \in {"Transaction rejected", "unreachable"}]_vars

\* The await points of a settle call; no call is left anywhere else
SettlePoints == {"idle", "submit", "confirm", "poll", "block", "done"}

\* C33: verify and settle end every call in a response: a verify call that
\* met an undecodable signature or a failing status lookup returned
\* isValid:false with a reason, every invalid response has a reason, and a
\* settle call that met a failing verification, submission or confirmation
\* returned success:false with a reason.
C33_FailuresAreResponses ==
    /\ vres # None =>
          /\ vres.response.isValid \in BOOLEAN
          /\ ~vres.response.isValid
                => vres.response.invalidReason.kind # "none"
          /\ (payload.signature.form = "malformed" \/ ~vres.status.ok)
                => ~vres.response.isValid
    /\ pc \in SettlePoints
    /\ pc = "done" =>
          /\ sres # None
          /\ sres.success \in BOOLEAN
          /\ ~sres.success => sres.errorReason.kind # "none"
          /\ sendOutcome \in {"refused", "unreachable"}
                => /\ ~sres.success
                   /\ sres.errorReason.kind = "Settlement error"
    /\ pc # "done" => sres = None

\* a settle call whose verification could not reach the node
C33_Witness ==
    /\ pc = "done"
    /\ vres # None
    /\ ~vres.status.ok
    /\ payload.signature.form = "ok"
    /\ vres.response.invalidReason.kind = "Verification error"
    /\ ~sres.success
    /\ sres.errorReason.kind = "Verification failed"

\* The reasons settle gives for its other failures
GenericSettleKinds ==
    {"Not an Algorand network", "Verification failed", "Settlement error",
     "Transaction submission succeeded but confirmation failed"}

\* C36: when the submission answers 'already in ledger' and payload.txnId is
\* empty, the call ends there in a failure of its own kind; no poll is made
\* with an empty transaction id, and no success names an empty transaction.
C36_MissingIdIsDistinctFailure ==
    [][/\ (/\ pc = "submit"
           /\ sendOutcome' = "already in ledger"
           /\ payload.txnId = EmptyTxId)
             => /\ pc' = "done"
                /\ ~sres'.success
                /\ sres'.errorReason.kind \notin GenericSettleKinds
       /\ (pc = "poll" /\ polls' = polls + 1) => txId # EmptyTxId
       /\ (pc' = "done" /\ sres'.success)
             => sres'.transaction # EmptyTxId]_vars

-----------------------------------------------------------------------------
(* createPaymentRequirements and processAlgorandPayment *)

Undefined == [kind |-> "undefined", val |-> 0]

UsdcBase ==
    <<"0", "x", "8", "3", "3", "5", "8", "9", "f", "C", "D", "6", "e", "D",
      "b", "6", "E", "0", "8", "f", "4", "c", "7", "C", "3", "2", "D", "4",
      "f", "7", "1", "b", "5", "4", "b", "d", "A", "0", "2", "9", "1", "3">>

UsdcEthereum ==
    <<"0", "x", "A", "0", "b", "8", "6", "9", "9", "1", "c", "6", "2", "1",
      "8", "b", "3", "6", "c", "1", "d", "1", "9", "D", "4", "a", "2", "e",
      "9", "E", "b", "0", "c", "E", "3", "6", "0", "6", "e", "B", "4", "8">>

UsdcPolygon ==
    <<"0", "x", "2", "7", "9", "1", "B", "c", "a", "1", "f", "2", "d", "e",
      "4", "6", "6", "1", "E", "D", "8", "8", "A", "3", "0", "C", "9", "9",
      "A", "7", "a", "9", "4", "4", "9", "A", "a", "8", "4", "1", "7", "4">>

\* The built-in USDC_ADDRESSES table: EVM networks only
USDC_ADDRESSES ==
    [n \in {"base", "base-sepolia", "ethereum", "polygon"} |->
        IF n = "base" THEN UsdcBase
        ELSE IF n = "base-sepolia" THEN UsdcBaseSepolia
        ELSE IF n = "ethereum" THEN UsdcEthereum
        ELSE UsdcPolygon]

\* USDC_ADDRESSES[network] || USDC_ADDRESSES["base-sepolia"]
DefaultAsset(network) ==
    IF network \in DOMAIN USDC_ADDRESSES THEN USDC_ADDRESSES[network]
    ELSE USDC_ADDRESSES["base-sepolia"]

AtomicPerUnit == 1000000

FractionDigits == 6

\* The first FractionDigits digits of a fraction, padded with zeros
RECURSIVE PadFraction(_)
PadFraction(f) ==
    IF Len(f) >= FractionDigits THEN SubSeq(f, 1, FractionDigits)
    ELSE PadFraction(f \o <<"0">>)

\* Math.floor(parseFloat(priceStr) * 1_000_000) for a signed decimal literal
\* of at most six fraction digits whose product is exact in a double; NaN
\* when the text starts with no number
FloorAtomic(priceStr) ==
    LET neg == priceStr # <<>> /\ Head(priceStr) = "-"
        body == IF priceStr # <<>> /\ Head(priceStr) \in {"-", "+"}
                THEN Tail(priceStr) ELSE priceStr
        n == DigitPrefixLen(body, 10)
        rest == SubSeq(body, n + 1, Len(body))
        fraction == IF rest # <<>> /\ Head(rest) = "."
                    THEN SubSeq(Tail(rest), 1, DigitPrefixLen(Tail(rest), 10))
                    ELSE <<>>
        magnitude == DigitsValue(SubSeq(body, 1, n), 10) * AtomicPerUnit
                     + DigitsValue(PadFraction(fraction), 10)
    IN IF n = 0 /\ fraction = <<>> THEN NaN
       ELSE Num(IF neg THEN -magnitude ELSE magnitude)

MoneyPrice(text) ==
    [kind |-> "string", text |-> text, value |-> NoText, asset |-> NoText]

\* A price given as a number, written as its literal
NumberPrice(text) ==
    [kind |-> "number", text |-> text, value |-> NoText, asset |-> NoText]

TokenAmount(value, asset) ==
    [kind |-> "token", text |-> NoText, value |-> value, asset |-> asset]

MicroText == <<"0", ".", "0", "0", "0", "0", "0", "1">>

\* Price: "$0.000001", "0.000001", "$0", "-0.000001", a text that is no
\* number, the numbers 0.000001, 0 and -0.000001, and the TokenAmount
\* objects of the model's amounts and assets
Prices ==
    {MoneyPrice(<<"$">> \o MicroText),
     MoneyPrice(MicroText),
     MoneyPrice(<<"$", "0">>),
     MoneyPrice(<<"-">> \o MicroText),
     MoneyPrice(<<"f", "r", "e", "e">>),
     NumberPrice(MicroText),
     NumberPrice(<<"0">>),
     NumberPrice(<<"-">> \o MicroText)}
    \cup {TokenAmount(v, a) : v \in AmountTexts, a \in AssetTexts}

processPriceToAtomicAmount(price, network) ==
    IF price.kind = "string"
    THEN LET priceStr == IF price.text # <<>> /\ Head(price.text) = "$"
                         THEN Tail(price.text) ELSE price.text
         IN [maxAmountRequired |-> NumberText(FloorAtomic(priceStr)),
             assetAddress |-> DefaultAsset(network)]
    ELSE IF price.kind = "number"
    THEN [maxAmountRequired |-> NumberText(FloorAtomic(price.text)),
          assetAddress |-> DefaultAsset(network)]
    ELSE [maxAmountRequired |-> price.value, assetAddress |-> price.asset]

DefaultNetwork == "base"

\* A human-readable NFD name
NfdName == "alice.algo"

DefaultTimeoutSeconds == 600

Options ==
    [price : Prices, payToAddress : Addrs \cup {NfdName},
     network : {"algorand-testnet", "algorand-mainnet", "algorand-devnet",
                "base-sepolia", "base", "undefined"},
     maxTimeoutSeconds : {Undefined, Num(9)}]

createPaymentRequirements(options) ==
    LET network == IF options.network = "undefined" THEN DefaultNetwork
                   ELSE options.network
        atomic == processPriceToAtomicAmount(options.price, network)
    IN [scheme |-> DefaultScheme,
        network |-> network,
        payTo |-> options.payToAddress,
        maxAmountRequired |-> atomic.maxAmountRequired,
        asset |-> atomic.assetAddress,
        maxTimeoutSeconds |->
            IF options.maxTimeoutSeconds = Undefined THEN DefaultTimeoutSeconds
            ELSE options.maxTimeoutSeconds.val]

\* The answer of client.getTransactionParams().do(): the validity window
\* the node suggests, or a failure
ParamsOk(round) == [ok |-> TRUE, firstValid |-> round, lastValid |-> round + TxnLife]

ParamsFailed == [ok |-> FALSE, firstValid |-> 0, lastValid |-> 0]

\* A throw after getSuggestedParams was awaited, and one before
Threw == [threw |-> TRUE, payload |-> None, chainCalled |-> TRUE]

ThrewEarly == [threw |-> TRUE, payload |-> None, chainCalled |-> FALSE]

\* a >= b on JavaScript numbers
GreaterOrEqualJS(a, b) ==
    \/ a.kind = "int" /\ b.kind = "int" /\ a.val >= b.val
    \/ a.kind = "big" /\ b.kind = "int"

\* a > b on JavaScript numbers: false when either side is NaN
GreaterThanJS(a, b) ==
    \/ a.kind = "int" /\ b.kind = "int" /\ a.val > b.val
    \/ a.kind = "big" /\ b.kind = "int"

\* makeAssetTransferTxnWithSuggestedParamsFromObject accepts an asset index
\* and an amount that are unsigned 64-bit integers, and a receiver that is
\* an Algorand address
IsUint64(x) == x.kind = "int" /\ x.val >= 0

IsAddress(a) == a \in Addrs

\* processAlgorandPayment(requirements, account, maxValue), given the answer
\* of the node to getTransactionParams
processAlgorandPayment(r, account, maxValue, params) ==
    LET assetId == ParseIntJS(r.asset)
        amount == BigIntJS(r.maxAmountRequired)
        txn == [form |-> "ok", snd |-> account, arcv |-> r.payTo,
                aamt |-> amount.val, xaid |-> assetId.val,
                fv |-> params.firstValid, lv |-> params.lastValid]
        authorization == [present |-> TRUE, from |-> account, to |-> r.payTo,
                          amount |-> r.maxAmountRequired,
                          assetId |-> assetId.val,
                          validRounds |-> RoundsFor(r.maxTimeoutSeconds)]
    IN IF ~isAlgorandNetwork(r.network) THEN ThrewEarly
       ELSE IF maxValue # Undefined
               /\ GreaterThanJS(ParseIntJS(r.maxAmountRequired), maxValue)
       THEN ThrewEarly
       ELSE IF r.network \notin ALGORAND_NETWORKS THEN ThrewEarly
       ELSE IF ~params.ok THEN Threw
       ELSE IF ~IsUint64(amount) \/ ~IsUint64(assetId) \/ ~IsAddress(r.payTo)
       THEN Threw
       ELSE [threw |-> FALSE,
             payload |-> [x402Version |-> 1,
                          scheme |-> r.scheme, network |-> r.network,
                          signature |-> txn, authorization |-> authorization,
                          txnId |-> TxID(txn)],
             chainCalled |-> TRUE]

\* this.network of a wallet constructed without a network argument
WalletNetwork == "algorand-testnet"

\* What the node answers to accountInformation(address): an error, or the
\* account with the ids of the assets it has opted into
AccountAnswers ==
    {[ok |-> FALSE, assets |-> {}]}
        \cup {[ok |-> TRUE, assets |-> S] : S \in SUBSET {UsdcTestnet, UsdcMainnet}}

\* How an opt-in transaction of the wallet ends: confirmed, or an error of
\* getSuggestedParams, of sendRawTransaction or of waitForConfirmation
OptInOutcomes == {"confirmed", "params failed", "send failed", "not confirmed"}

\* AlgorandLocalWallet.isOptedIntoASA(assetId): asset 0 is answered before
\* the node is asked
AlgorandLocalWallet_isOptedIntoASA(assetId, network, account) ==
    IF assetId.kind = "int" /\ assetId.val = 0 THEN TRUE
    ELSE IF network \notin ALGORAND_NETWORKS THEN FALSE
    ELSE IF ~account.ok THEN FALSE
    ELSE assetId.kind = "int" /\ assetId.val \in account.assets

\* AlgorandLocalWallet.optIntoASA(assetId)
optIntoASA(assetId, network, outcome) ==
    IF network \notin ALGORAND_NETWORKS THEN FALSE
    ELSE IF outcome = "params failed" THEN FALSE
    ELSE IF ~IsUint64(assetId) THEN FALSE
    ELSE outcome = "confirmed"

\* isOptedIntoASA(network, address, assetId) of the facilitator: the node is
\* asked for the account before asset 0 is answered
isOptedIntoASA(network, address, assetId, account) ==
    IF network \notin ALGORAND_NETWORKS THEN FALSE
    ELSE IF ~account.ok THEN FALSE
    ELSE IF assetId.kind = "int" /\ assetId.val = 0 THEN TRUE
    ELSE assetId.kind = "int" /\ assetId.val \in account.assets

ensureOptIn_Unchecked(assetId, network, account, outcome) == TRUE

\* AlgorandLocalWallet.ensureOptIn(assetId)
ensureOptIn(assetId, network, account, outcome) ==
    IF AlgorandLocalWallet_isOptedIntoASA(assetId, network, account) THEN TRUE
    ELSE optIntoASA(assetId, network, outcome)

\* AlgorandLocalWallet.signPayment(requirements) on requirements.accepts[0],
\* given whether the account is or gets opted into the asset and the answer
\* of the node to getTransactionParams
signPayment(paymentOption, account, optedIn, params) ==
    LET assetId == ParseIntJS(paymentOption.asset)
        amountRequired == BigIntJS(paymentOption.maxAmountRequired)
        validRounds == RoundsFor(paymentOption.maxTimeoutSeconds)
        txn == [form |-> "ok", snd |-> account, arcv |-> paymentOption.payTo,
                aamt |-> amountRequired.val, xaid |-> assetId.val,
                fv |-> params.firstValid,
                lv |-> params.firstValid + validRounds]
        authorization == [present |-> TRUE, from |-> account,
                          to |-> paymentOption.payTo,
                          amount |-> NumberText(amountRequired),
                          assetId |-> assetId.val,
                          validRounds |-> validRounds]
    IN IF ~isAlgorandNetwork(paymentOption.network) THEN ThrewEarly
       ELSE IF amountRequired.kind = "error" THEN ThrewEarly
       ELSE IF paymentOption.network \notin ALGORAND_NETWORKS \/ ~optedIn
       THEN Threw
       ELSE IF ~params.ok THEN Threw
       ELSE IF ~IsUint64(amountRequired) \/ ~IsUint64(assetId)
               \/ ~IsAddress(paymentOption.payTo)
       THEN Threw
       ELSE [threw |-> FALSE,
             payload |-> [x402Version |-> 1,
                          scheme |-> paymentOption.scheme,
                          network |-> paymentOption.network,
                          signature |-> txn, authorization |-> authorization,
                          txnId |-> TxID(txn)],
             chainCalled |-> TRUE]

NoRequirements ==
    [scheme |-> "undefined", network |-> "undefined", payTo |-> NoAddr,
     maxAmountRequired |-> NoText, asset |-> NoText, maxTimeoutSeconds |-> 0]

NoPayload ==
    [scheme |-> "undefined", network |-> "undefined",
     signature |-> AbsentSignature, authorization |-> NoAuthorization,
     txnId |-> EmptyTxId]

Given == [given |-> TRUE]

InitSign ==
    /\ requirements = NoRequirements
    /\ payload = NoPayload
    /\ lastRound \in 1..MaxRound
    /\ vres = None
    /\ tampered = NotTampered
    /\ txState = "unknown"
    /\ otherConfirmed = FALSE
    /\ SettleIdle
    /\ signer \in Addrs
    /\ signRes = "none"
    /\ signCall = None
    /\ origin = None
    /\ optInCall = None
    /\ TrackerIdle
    /\ AppIdle

\* const requirements = await createPaymentRequirements({...})
CreateRequirements ==
    /\ requirements = NoRequirements
    /\ \E options \in Options :
          /\ requirements' = createPaymentRequirements(options)
          /\ origin' = options
    /\ UNCHANGED <<payload, verifyVars, chainVars, settleVars, appVars, signer, signRes,
                   signCall, optInCall, trackerVars>>

\* The caller has requirements that were built elsewhere
ReceiveRequirements ==
    /\ requirements = NoRequirements
    /\ \E r \in RequirementsSet :
          /\ r.maxTimeoutSeconds = 9
          /\ requirements' = r
          /\ origin' = Given
    /\ UNCHANGED <<payload, verifyVars, chainVars, settleVars, appVars, signer, signRes,
                   signCall, optInCall, trackerVars>>

\* await processAlgorandPayment(requirements, account, maxValue)
SignCall ==
    /\ requirements # NoRequirements
    /\ signRes = "none"
    /\ \E maxValue \in {Undefined, Num(0), Num(MaxAmount)},
          params \in {ParamsOk(lastRound), ParamsFailed} :
          LET result == processAlgorandPayment(requirements, signer, maxValue,
                                               params)
          IN /\ signCall' = [by |-> "processAlgorandPayment",
                             maxValue |-> maxValue,
                             chainCalled |-> result.chainCalled]
             /\ IF result.threw
                THEN /\ signRes' = "threw"
                     /\ payload' = payload
                ELSE /\ signRes' = "returned"
                     /\ payload' = result.payload
    /\ UNCHANGED <<requirements, verifyVars, chainVars, settleVars, appVars, signer,
                   origin, optInCall, trackerVars>>

\* await wallet.signPayment(requirements)
WalletSignCall ==
    /\ requirements # NoRequirements
    /\ signRes = "none"
    /\ \E account \in AccountAnswers, outcome \in OptInOutcomes,
          params \in {ParamsOk(lastRound), ParamsFailed} :
          LET optedIn == ensureOptIn(ParseIntJS(requirements.asset),
                                     WalletNetwork, account, outcome)
              result == signPayment(requirements, signer, optedIn, params)
          IN /\ signCall' = [by |-> "signPayment", maxValue |-> Undefined,
                             chainCalled |-> result.chainCalled,
                             account |-> account, optIn |-> outcome]
             /\ IF result.threw
                THEN /\ signRes' = "threw"
                     /\ payload' = payload
                ELSE /\ signRes' = "returned"
                     /\ payload' = result.payload
    /\ UNCHANGED <<requirements, verifyVars, chainVars, settleVars, appVars, signer,
                   origin, optInCall, trackerVars>>

NextSign ==
    \/ CreateRequirements
    \/ ReceiveRequirements
    \/ SignCall
    \/ WalletSignCall
    \/ NewBlock /\ signRes = "returned" /\ vres = None
    \/ VerifyCall /\ signRes = "returned"

SignSpec == InitSign /\ [][NextSign]_vars

-----------------------------------------------------------------------------
(* Properties of signing and verifying *)

\* C7: a payload that processAlgorandPayment returned verifies against the
\* requirements it was signed for, with the signer as payer, when the node
\* answers and its round has not passed the transaction's last-valid round.
C7_SignThenVerifyRoundTrip ==
    (/\ signRes = "returned"
     /\ signCall.by = "processAlgorandPayment"
     /\ vres # None
     /\ vres.status.ok
     /\ payload.signature.lv >= vres.status.lastRound)
        => /\ vres.response.isValid
           /\ vres.response.payer = signer

IsDecimalText(t) == t # <<>> /\ DigitPrefixLen(t, 10) = Len(t)

\* maxAmountRequired is above the ceiling of the call
ExceedsCeiling ==
    /\ signCall.maxValue # Undefined
    /\ IsDecimalText(requirements.maxAmountRequired)
    /\ DigitsValue(requirements.maxAmountRequired, 10) > signCall.maxValue.val

WithinCeiling ==
    \/ signCall.maxValue = Undefined
    \/ /\ IsDecimalText(requirements.maxAmountRequired)
       /\ DigitsValue(requirements.maxAmountRequired, 10) <= signCall.maxValue.val

\* C18: a call for a network that is not Algorand-family, or whose amount
\* is above a supplied ceiling, throws with no node call made and nothing
\* signed; a call for a configured Algorand network whose amount is at or
\* below the ceiling, or that has no ceiling, goes on to the node.
C18_RejectsBeforeAnythingElse ==
    (signCall # None /\ signCall.by = "processAlgorandPayment") =>
        /\ (~isAlgorandNetwork(requirements.network) \/ ExceedsCeiling)
              => /\ signRes = "threw"
                 /\ ~signCall.chainCalled
                 /\ payload = NoPayload
        /\ (requirements.network \in ALGORAND_NETWORKS /\ WithinCeiling)
              => signCall.chainCalled

C18_Witness ==
    /\ signCall # None
    /\ signCall.by = "processAlgorandPayment"
    /\ requirements.network = "algorand-testnet"
    /\ requirements.maxAmountRequired = <<"1">>
    /\ signCall.maxValue = Num(0)
    /\ signRes = "threw"
    /\ ~signCall.chainCalled

\* ceil(maxTimeoutSeconds / 4.5) for the timeouts of the model
CeilRounds ==
    IF requirements.maxTimeoutSeconds = 4 THEN 1
    ELSE IF requirements.maxTimeoutSeconds = 9 THEN 2
    ELSE 134

\* C19: the transaction either signer returns has last-valid round equal to
\* first-valid round plus validRounds, and validRounds, recorded in the
\* authorization, is ceil(maxTimeoutSeconds / 4.5).
C19_LastValidIsFirstPlusValidRounds ==
    signRes = "returned" =>
        /\ payload.authorization.validRounds = CeilRounds
        /\ payload.signature.lv =
              payload.signature.fv + payload.authorization.validRounds

\* The wallet call found the account opted in: asset 0, or the node listed
\* the asset for the account
FoundOptedIn ==
    \/ ParseIntJS(requirements.asset) = Num(0)
    \/ /\ signCall.account.ok
       /\ ParseIntJS(requirements.asset).kind = "int"
       /\ ParseIntJS(requirements.asset).val \in signCall.account.assets

\* The account lookup of the wallet call ended in an error
OptInCheckFailed ==
    /\ ParseIntJS(requirements.asset) # Num(0)
    /\ ~signCall.account.ok

\* signPayment got as far as ensureOptIn
ReachedOptIn ==
    /\ signCall # None
    /\ signCall.by = "signPayment"
    /\ isAlgorandNetwork(requirements.network)
    /\ BigIntJS(requirements.maxAmountRequired).kind # "error"

\* C32: signPayment returns a signed payload only when the call found the
\* account opted in or its opt-in transaction was confirmed; when the
\* account is not found opted in (a failed lookup included) and the opt-in
\* transaction is not confirmed, signPayment throws and signs nothing.
C32_SignsOnlyAfterOptIn ==
    (signCall # None /\ signCall.by = "signPayment") =>
        /\ signRes = "returned"
              => (FoundOptedIn \/ signCall.optIn = "confirmed")
        /\ (ReachedOptIn /\ ~FoundOptedIn /\ signCall.optIn # "confirmed")
              => /\ signRes = "threw"
                 /\ payload = NoPayload

\* a payload signed after the lookup failed and the opt-in was confirmed
C32_Witness ==
    /\ ReachedOptIn
    /\ OptInCheckFailed
    /\ signCall.optIn = "confirmed"
    /\ signRes = "returned"
    /\ payload # NoPayload

\* C32 as stated: a failed opt-in check, like a failed opt-in transaction,
\* makes signPayment throw and sign nothing.
C32_CheckFailureThrows ==
    (/\ ReachedOptIn
     /\ \/ OptInCheckFailed
        \/ ~FoundOptedIn /\ signCall.optIn # "confirmed")
        => /\ signRes = "threw"
           /\ payload = NoPayload

\* C35: a payload that processAlgorandPayment returned has x402Version 1,
\* the scheme and the network of the requirements, an authorization whose
\* from, to, amount and assetId are the sender, the receiver, the amount and
\* the asset index of the signed transaction, and the id of that transaction
\* as txnId.
C35_PayloadMirrorsSignedTransaction ==
    (/\ signRes = "returned"
     /\ signCall.by = "processAlgorandPayment")
        => /\ payload.x402Version = 1
           /\ payload.scheme = requirements.scheme
           /\ payload.network = requirements.network
           /\ payload.authorization.from = payload.signature.snd
           /\ payload.authorization.to = payload.signature.arcv
           /\ payload.authorization.amount = AmountText(payload.signature)
           /\ payload.authorization.assetId = payload.signature.xaid
           /\ payload.txnId = TxID(payload.signature)

-----------------------------------------------------------------------------
(* Properties of createPaymentRequirements *)

\* The requirements came out of createPaymentRequirements
Created == origin # None /\ origin # Given

NothingReturned == requirements = NoRequirements

\* The asset identifier the documentation configures for each network
ConfiguredAssets ==
    [n \in {"base", "base-sepolia", "algorand-testnet", "algorand-mainnet"} |->
        IF n = "base" THEN UsdcBase
        ELSE IF n = "base-sepolia" THEN UsdcBaseSepolia
        ELSE IF n = "algorand-testnet" THEN UsdcTestnetText
        ELSE NumToString(UsdcMainnet)]

ZeroPriceTexts == {<<"$", "0">>, <<"0">>}

MicroPriceTexts == {<<"$">> \o MicroText, MicroText}

CurrencyPrice == origin.price.kind \in {"string", "number"}

\* C14: for a currency-string or number price and a supported network the
\* returned maxAmountRequired is floor(value * 1,000,000) as a decimal string
\* and the returned asset is the identifier configured for the network.
C14_AmountAndConfiguredAsset ==
    (/\ Created
     /\ CurrencyPrice
     /\ origin.price.text \in ZeroPriceTexts \cup MicroPriceTexts
     /\ requirements.network \in DOMAIN ConfiguredAssets)
        => /\ requirements.maxAmountRequired =
                 (IF origin.price.text \in ZeroPriceTexts THEN <<"0">>
                  ELSE <<"1">>)
           /\ requirements.asset = ConfiguredAssets[requirements.network]

\* C15: no requirements are returned for a network that has no configured
\* asset.
C15_UnknownNetworkFails ==
    (/\ Created
     /\ origin.network # "undefined"
     /\ origin.network \notin DOMAIN ConfiguredAssets \cup DOMAIN USDC_ADDRESSES)
        => NothingReturned

\* C16: a price of 0 gives maxAmountRequired "0", a negative or non-numeric
\* price gives no requirements, and every maxAmountRequired returned is a
\* string of decimal digits.
C16_PriceValidated ==
    Created =>
        /\ (CurrencyPrice /\ origin.price.text \in ZeroPriceTexts)
              => requirements.maxAmountRequired = <<"0">>
        /\ (CurrencyPrice
            /\ origin.price.text \notin ZeroPriceTexts \cup MicroPriceTexts)
              => NothingReturned
        /\ ~NothingReturned => IsDecimalText(requirements.maxAmountRequired)

\* C17: a payToAddress that is an NFD name never comes back as payTo: the
\* returned payTo is an Algorand address, or nothing is returned.
C17_NfdNameResolved ==
    (Created /\ origin.payToAddress = NfdName)
        => \/ NothingReturned
           \/ requirements.payTo \in Addrs

-----------------------------------------------------------------------------
(* The task payment-state tracker (x402Utils), as the specification describes
   it: a PaymentStatus and a SettleResponse per task, changed only by the
   tracker's operations *)

PaymentStatuses ==
    {"NoPayment", "PaymentRequired", "PaymentSubmitted", "PaymentVerified",
     "PaymentSettled", "PaymentFailed"}

TerminalStatuses == {"PaymentSettled", "PaymentFailed"}

\* The SettleResponses a settler hands to the tracker
SuccessResponses ==
    {Success("algorand-testnet", "ADDR_A", TxID(t)) :
        t \in {x \in SettleSignatures : x.form = "ok" /\ x.arcv = "ADDR_B"
                                        /\ x.lv \in {1, 2}}}

FailureResponses ==
    {Failure("algorand-testnet", "ADDR_A", "Settlement error", "refused"),
     Failure("algorand-testnet", "ADDR_A", "Verification failed",
             "Transaction expired")}

\* The provider may raise the payment-required challenge
CanRequire(status) == status = "NoPayment"

\* The caller may attach a payload
CanSubmit(status) == status = "PaymentRequired"

\* Verification may also be recorded for a task with no payload yet
CanVerify_FromRequired(status) ==
    status \in {"PaymentRequired", "PaymentSubmitted"}

\* The verifier's isValid:true may be recorded
CanVerify(status) == status = "PaymentSubmitted"

\* The settler's success:true may be recorded
CanSettle(status) == status = "PaymentVerified"

\* A failure may be recorded whenever a payment is on record
CanFail_AnyTime(status) == status # "NoPayment"

\* A failure of the verifier or of the settler may be recorded
CanFail(status) == status \in {"PaymentSubmitted", "PaymentVerified"}

\* The response is the one the task already has on record
SameResponse_Never(stored, response) == FALSE

\* The response is the one the task already has on record
SameResponse(stored, response) == stored = response

\* The requirements a provider offers and the payloads a caller attaches
OfferedRequirements ==
    {r \in RequirementsSet :
        /\ r.network = "algorand-testnet" /\ r.payTo = "ADDR_B"
        /\ r.asset = UsdcTestnetText /\ r.maxTimeoutSeconds = 9
        /\ r.maxAmountRequired \in {NumToString(0), NumToString(1)}}

AttachedPayloads ==
    {[scheme |-> DefaultScheme, network |-> "algorand-testnet",
      signature |-> t,
      authorization |-> [present |-> TRUE, from |-> "ADDR_A", to |-> "ADDR_B",
                         amount |-> NumToString(1), assetId |-> UsdcTestnet],
      txnId |-> TxID(t)] :
        t \in {x \in SettleSignatures : x.form = "ok" /\ x.arcv = "ADDR_B"
                                        /\ x.lv \in {1, 2}}}

\* A tracker call: the operation, the task, whether it was accepted, whether
\* it found its outcome already on record, and the response it carried
Call(op, task, applied, repeated, response) ==
    [op |-> op, task |-> task, applied |-> applied, repeated |-> repeated,
     response |-> response]

InitTracker ==
    /\ requirements = NoRequirements
    /\ payload = NoPayload
    /\ lastRound = 1
    /\ vres = None
    /\ tampered = NotTampered
    /\ txState = "unknown"
    /\ otherConfirmed = FALSE
    /\ SettleIdle
    /\ SignIdle
    /\ TrackerIdle
    /\ AppIdle

\* A status update that changes the status of one task, or is rejected
UpdateStatus(op, task, allowed, status, metadata) ==
    /\ paymentStatus' = IF allowed
                        THEN [paymentStatus EXCEPT ![task] = status]
                        ELSE paymentStatus
    /\ paymentMetadata' = IF allowed
                          THEN [paymentMetadata EXCEPT ![task] = metadata]
                          ELSE paymentMetadata
    /\ settleResponse' = settleResponse
    /\ lastCall' = Call(op, task, allowed, FALSE, None)

\* NoPayment -> PaymentRequired: the provider raises the challenge
RequirePayment ==
    /\ \E task \in Tasks, offer \in OfferedRequirements :
          UpdateStatus("requirePayment", task,
                       CanRequire(paymentStatus[task]), "PaymentRequired",
                       [paymentMetadata[task] EXCEPT !.requirements = offer])
    /\ UNCHANGED <<payload, requirements, verifyVars, chainVars, settleVars, appVars,
                   signVars>>

\* PaymentRequired -> PaymentSubmitted: the caller attaches a payload, which
\* matches one of the offered requirements or does not
SubmitPayment ==
    /\ \E task \in Tasks, attached \in AttachedPayloads, matches \in BOOLEAN :
          UpdateStatus("submitPayment", task,
                       CanSubmit(paymentStatus[task]) /\ matches,
                       "PaymentSubmitted",
                       [paymentMetadata[task] EXCEPT !.payload = attached])
    /\ UNCHANGED <<payload, requirements, verifyVars, chainVars, settleVars, appVars,
                   signVars>>

\* PaymentSubmitted -> PaymentVerified: the verifier returned isValid:true
RecordPaymentVerified ==
    /\ \E task \in Tasks :
          UpdateStatus("recordPaymentVerified", task,
                       CanVerify(paymentStatus[task]), "PaymentVerified",
                       paymentMetadata[task])
    /\ UNCHANGED <<payload, requirements, verifyVars, chainVars, settleVars, appVars,
                   signVars>>

\* recordPaymentSuccess(task, settleResponse): PaymentVerified ->
\* PaymentSettled; on a settled task the identical response is a no-op and
\* any other response is rejected
recordPaymentSuccess ==
    /\ \E task \in Tasks, response \in SuccessResponses :
          IF CanSettle(paymentStatus[task])
          THEN /\ paymentStatus' = [paymentStatus EXCEPT ![task] = "PaymentSettled"]
               /\ settleResponse' = [settleResponse EXCEPT ![task] = response]
               /\ lastCall' = Call("recordPaymentSuccess", task, TRUE, FALSE,
                                   response)
          ELSE LET repeated ==
                       /\ paymentStatus[task] = "PaymentSettled"
                       /\ SameResponse(settleResponse[task], response)
               IN /\ UNCHANGED <<paymentStatus, settleResponse>>
                  /\ lastCall' = Call("recordPaymentSuccess", task, repeated,
                                      repeated, response)
    /\ paymentMetadata' = paymentMetadata
    /\ UNCHANGED <<payload, requirements, verifyVars, chainVars, settleVars, appVars,
                   signVars>>

\* recordPaymentFailure(task, errorCode, settleResponse): PaymentSubmitted or
\* PaymentVerified -> PaymentFailed; rejected in every other state
recordPaymentFailure ==
    /\ \E task \in Tasks, response \in FailureResponses :
          IF CanFail(paymentStatus[task])
          THEN /\ paymentStatus' = [paymentStatus EXCEPT ![task] = "PaymentFailed"]
               /\ settleResponse' = [settleResponse EXCEPT ![task] = response]
               /\ lastCall' = Call("recordPaymentFailure", task, TRUE, FALSE,
                                   response)
          ELSE /\ UNCHANGED <<paymentStatus, settleResponse>>
               /\ lastCall' = Call("recordPaymentFailure", task, FALSE, FALSE,
                                   response)
    /\ paymentMetadata' = paymentMetadata
    /\ UNCHANGED <<payload, requirements, verifyVars, chainVars, settleVars, appVars,
                   signVars>>

NextTracker ==
    \/ RequirePayment
    \/ SubmitPayment
    \/ RecordPaymentVerified
    \/ recordPaymentSuccess
    \/ recordPaymentFailure

TrackerSpec == InitTracker /\ [][NextTracker]_vars

-----------------------------------------------------------------------------
(* Properties of the tracker *)

LegalEdges ==
    {<<"NoPayment", "PaymentRequired">>,
     <<"PaymentRequired", "PaymentSubmitted">>,
     <<"PaymentSubmitted", "PaymentVerified">>,
     <<"PaymentSubmitted", "PaymentFailed">>,
     <<"PaymentVerified", "PaymentSettled">>,
     <<"PaymentVerified", "PaymentFailed">>}

\* C3: every change of a task's recorded PaymentStatus is one of the legal
\* edges; in particular none leads from PaymentRequired to PaymentVerified.
C3_LegalEdgesOnly ==
    [][\A task \in Tasks :
          paymentStatus'[task] # paymentStatus[task]
              => <<paymentStatus[task], paymentStatus'[task]>> \in LegalEdges]_vars

\* One task went all the way to PaymentSettled, and recording a verification
\* for a task that is still PaymentRequired was refused
C3_Witness ==
    /\ \E task \in Tasks : paymentStatus[task] = "PaymentSettled"
    /\ lastCall # None
    /\ lastCall.op = "recordPaymentVerified"
    /\ ~lastCall.applied
    /\ paymentStatus[lastCall.task] = "PaymentRequired"

\* C4: once a task is PaymentSettled or PaymentFailed, no tracker call
\* changes its status or its recorded SettleResponse.
C4_TerminalWriteOnce ==
    [][\A task \in Tasks :
          paymentStatus[task] \in TerminalStatuses
              => /\ paymentStatus'[task] = paymentStatus[task]
                 /\ settleResponse'[task] = settleResponse[task]]_vars

\* A failure was reported for a task that is settled, and refused: the task
\* keeps its success response
C4_Witness ==
    /\ lastCall # None
    /\ lastCall.op = "recordPaymentFailure"
    /\ ~lastCall.applied
    /\ paymentStatus[lastCall.task] = "PaymentSettled"
    /\ settleResponse[lastCall.task].success
    /\ settleResponse[lastCall.task] # lastCall.response

\* C13: a record-success call on a task that is PaymentSettled, carrying the
\* response the task has on record, is accepted and leaves the task's
\* status, payload, requirements and settle response as they were.
C13_RecordSuccessIdempotent ==
    [][\A task \in Tasks :
          (/\ lastCall'.op = "recordPaymentSuccess"
           /\ lastCall'.task = task
           /\ paymentStatus[task] = "PaymentSettled"
           /\ lastCall'.response = settleResponse[task])
              => /\ lastCall'.applied
                 /\ paymentStatus'[task] = paymentStatus[task]
                 /\ paymentMetadata'[task] = paymentMetadata[task]
                 /\ settleResponse'[task] = settleResponse[task]]_vars

C13_Witness ==
    /\ lastCall # None
    /\ lastCall.op = "recordPaymentSuccess"
    /\ lastCall.applied
    /\ lastCall.repeated
    /\ paymentStatus[lastCall.task] = "PaymentSettled"
    /\ settleResponse[lastCall.task] = lastCall.response
    /\ paymentMetadata[lastCall.task].payload \in AttachedPayloads
    /\ paymentMetadata[lastCall.task].requirements \in OfferedRequirements

-----------------------------------------------------------------------------
(* nfd-resolver: isNFDName, resolveNFD, resolveAlgorandAddress *)

\* NFD_API_ENDPOINTS: the networks with a name service endpoint
NFD_API_ENDPOINTS == {"algorand-mainnet", "algorand-testnet", "algorand-betanet"}

NfdNetworks == Networks \cup {"algorand-mainnet"}

DotAlgo == <<".", "a", "l", "g", "o">>

\* Only the ending is looked at
isNFDName_EndsOnly(name) == EndsWith(name, DotAlgo)

\* name.endsWith('.algo') || name.includes('.algo.')
isNFDName(name) ==
    EndsWith(name, DotAlgo) \/ Includes(name, DotAlgo \o <<".">>)

\* The texts that are Algorand addresses: each stands for 58 characters of
\* base32 with a good checksum
AddressTexts == {<<"A", "A">>, <<"B", "B">>}

\* algosdk.isValidAddress(address)
isValidAlgorandAddress(address) == address \in AddressTexts

\* The inputs of the resolver: addresses, names ending in .algo, a name with
\* .algo. inside, texts that are neither
NfdInputs ==
    AddressTexts
    \cup {<<"a">> \o DotAlgo,
          <<"w", ".", "a">> \o DotAlgo,
          <<"a">> \o DotAlgo \o <<".", "x">>,
          <<"a">> \o DotAlgo \o <<"x">>,
          <<"a", "l", "g", "o">>,
          <<"A">>,
          NoText}

\* What the name service answers to GET /nfd/<name>: no answer, a status
\* other than 200, a body that is not JSON, the record of the name
NfdStates == {"owned", "forSale", "expired"}

NfdDeposits == AddressTexts \cup {NoText, <<"A">>}

NoRecord == [state |-> "none", depositAccount |-> NoText]

NfdAnswers ==
    [http : {"unreachable", "404", "500", "bad json"}, data : {NoRecord}]
    \cup [http : {"200"}, data : [state : NfdStates, depositAccount : NfdDeposits]]

NfdReturned(address, fetched) ==
    [threw |-> FALSE, error |-> "none", address |-> address, fetched |-> fetched]

NfdThrew(error, fetched) ==
    [threw |-> TRUE, error |-> error, address |-> NoText, fetched |-> fetched]

\* Every state resolves
StateOwned_Any(state) == TRUE

\* data.state !== 'owned'
StateOwned(state) == state = "owned"

\* resolveNFD(nfdName, network), given the answer of the name service when
\* the call gets as far as the fetch
resolveNFD(nfdName, network, answer) ==
    IF ~isNFDName(nfdName) THEN NfdThrew("Invalid NFD name", FALSE)
    ELSE IF network \notin NFD_API_ENDPOINTS
    THEN NfdThrew("No NFD API endpoint configured", FALSE)
    ELSE IF answer.http \in {"unreachable", "bad json"}
    THEN NfdThrew("Failed to resolve NFD", TRUE)
    ELSE IF answer.http = "404" THEN NfdThrew("NFD not found", TRUE)
    ELSE IF answer.http # "200" THEN NfdThrew("NFD API error", TRUE)
    ELSE IF ~StateOwned(answer.data.state) THEN NfdThrew("NFD is not owned", TRUE)
    ELSE IF answer.data.depositAccount = NoText
    THEN NfdThrew("NFD has no deposit account configured", TRUE)
    ELSE IF ~isValidAlgorandAddress(answer.data.depositAccount)
    THEN NfdThrew("Failed to resolve NFD", TRUE)
    ELSE NfdReturned(answer.data.depositAccount, TRUE)

\* resolveAlgorandAddress(addressOrNFD, network)
resolveAlgorandAddress(addressOrNFD, network, answer) ==
    IF isValidAlgorandAddress(addressOrNFD)
    THEN NfdReturned(addressOrNFD, FALSE)
    ELSE IF isNFDName(addressOrNFD)
    THEN resolveNFD(addressOrNFD, network, answer)
    ELSE NfdThrew("Invalid Algorand address or NFD name", FALSE)

InitNfd ==
    /\ requirements = NoRequirements
    /\ payload = NoPayload
    /\ lastRound = 1
    /\ vres = None
    /\ tampered = NotTampered
    /\ txState = "unknown"
    /\ otherConfirmed = FALSE
    /\ SettleIdle
    /\ SignIdle
    /\ TrackerIdle
    /\ AppIdle

\* One call of the resolver; the answer of the name service is part of the
\* call only when the call fetched
NfdCall(op, input, network, answer, result) ==
    [op |-> op, input |-> input, network |-> network,
     answer |-> IF result.fetched THEN answer ELSE None,
     result |-> result]

\* await resolveNFD(nfdName, network)
ResolveNFD ==
    /\ \E nfdName \in NfdInputs, network \in NfdNetworks, answer \in NfdAnswers :
          nfdCall' = NfdCall("resolveNFD", nfdName, network, answer,
                             resolveNFD(nfdName, network, answer))
    /\ UNCHANGED <<coreVars, agentVars, merchantVars>>

\* await resolveAlgorandAddress(addressOrNFD, network)
ResolveAlgorandAddress ==
    /\ \E addressOrNFD \in NfdInputs, network \in NfdNetworks,
          answer \in NfdAnswers :
          nfdCall' = NfdCall("resolveAlgorandAddress", addressOrNFD, network,
                             answer,
                             resolveAlgorandAddress(addressOrNFD, network, answer))
    /\ UNCHANGED <<coreVars, agentVars, merchantVars>>

NextNfd ==
    \/ ResolveNFD
    \/ ResolveAlgorandAddress

NfdSpec == InitNfd /\ [][NextNfd]_vars

-----------------------------------------------------------------------------
(* Properties of the NFD resolver *)

\* The call fetched the record of the name
GotRecord == nfdCall.answer # None /\ nfdCall.answer.http = "200"

\* C23: resolveNFD throws when the name is not found, when the record is not
\* in state 'owned' and when the record has no deposit account; an address it
\* returns is the deposit account of an owned record and is a valid address.
C23_ResolveNfdFailsOrReturnsDeposit ==
    (nfdCall # None /\ nfdCall.op = "resolveNFD") =>
        /\ (nfdCall.answer # None /\ nfdCall.answer.http = "404")
              => nfdCall.result.threw
        /\ (GotRecord /\ nfdCall.answer.data.state # "owned")
              => nfdCall.result.threw
        /\ (GotRecord /\ nfdCall.answer.data.depositAccount = NoText)
              => nfdCall.result.threw
        /\ ~nfdCall.result.threw =>
              /\ GotRecord
              /\ nfdCall.answer.data.state = "owned"
              /\ nfdCall.result.address = nfdCall.answer.data.depositAccount
              /\ nfdCall.result.address \in AddressTexts

\* resolveNFD fetched the record of an owned name and returned its deposit
\* account
C23_Witness ==
    /\ nfdCall # None
    /\ nfdCall.op = "resolveNFD"
    /\ ~nfdCall.result.threw
    /\ nfdCall.result.fetched

\* The texts of NfdInputs that look like an NFD name
NfdLikeInputs ==
    {<<"a">> \o DotAlgo, <<"w", ".", "a">> \o DotAlgo,
     <<"a">> \o DotAlgo \o <<".", "x">>}

\* C24: resolveAlgorandAddress returns a valid address unchanged without
\* fetching, answers as resolveNFD does for an input that looks like an NFD
\* name, and throws without fetching for every other input.
C24_AddressOrNfdOrThrow ==
    (nfdCall # None /\ nfdCall.op = "resolveAlgorandAddress") =>
        /\ nfdCall.input \in AddressTexts =>
              /\ ~nfdCall.result.threw
              /\ nfdCall.result.address = nfdCall.input
              /\ ~nfdCall.result.fetched
        /\ nfdCall.input \in NfdLikeInputs =>
              /\ nfdCall.network \in NFD_API_ENDPOINTS <=> nfdCall.result.fetched
              /\ \E answer \in NfdAnswers :
                    /\ nfdCall.result.fetched => answer = nfdCall.answer
                    /\ nfdCall.result
                          = resolveNFD(nfdCall.input, nfdCall.network, answer)
        /\ nfdCall.input \notin AddressTexts \cup NfdLikeInputs =>
              /\ nfdCall.result.threw
              /\ ~nfdCall.result.fetched
              /\ nfdCall.result.error = "Invalid Algorand address or NFD name"

\* resolveAlgorandAddress resolved a name through the name service
C24_Witness ==
    /\ nfdCall # None
    /\ nfdCall.op = "resolveAlgorandAddress"
    /\ nfdCall.input \in NfdLikeInputs
    /\ ~nfdCall.result.threw
    /\ nfdCall.result.fetched

-----------------------------------------------------------------------------
(* The client agent: sendMessageToMerchant, confirmPayment, cancelPayment *)

InitAgent ==
    /\ requirements = NoRequirements
    /\ payload = NoPayload
    /\ lastRound = 1
    /\ vres = None
    /\ tampered = NotTampered
    /\ txState = "unknown"
    /\ otherConfirmed = FALSE
    /\ SettleIdle
    /\ SignIdle
    /\ TrackerIdle
    /\ AppIdle

\* What is left of an invocation that has returned
Returned(inv, result) == [inv EXCEPT !.pc = "idle", !.result = result]

InFlight(i) == confirm[i].pc # "idle"

\* sendMessageToMerchant finds payment requirements in the merchant's events
\* and stores them in state.pendingPayment, over whatever was pending; any
\* other outcome leaves the state as it is
SendMessageToMerchant ==
    /\ storedCount < MaxStored
    /\ storedCount' = storedCount + 1
    /\ pendingPayment' = storedCount + 1
    /\ transfers' = Append(transfers, 0)
    /\ UNCHANGED <<coreVars, nfdVars, merchantVars, confirm, confirms>>

\* confirmPayment up to await wallet.signPayment(...): the test of
\* state.pendingPayment and the reading of accepts[0]
ConfirmBegin(i) ==
    /\ ~InFlight(i)
    /\ confirms < MaxConfirms
    /\ confirms' = confirms + 1
    /\ IF pendingPayment = 0
       THEN confirm' = [confirm EXCEPT ![i] =
                           Returned(NotStarted, "No pending payment to confirm")]
       ELSE confirm' =
               [j \in Invocations |->
                   IF j = i
                   THEN [pc |-> "sign", req |-> pendingPayment, paid |-> FALSE,
                         overlapped |-> \E k \in Invocations \ {i} : InFlight(k),
                         result |-> "none"]
                   ELSE IF InFlight(j)
                   THEN [confirm[j] EXCEPT !.overlapped = TRUE]
                   ELSE confirm[j]]
    /\ UNCHANGED <<coreVars, nfdVars, merchantVars, pendingPayment, storedCount,
                   transfers>>

\* await wallet.signPayment(state.pendingPayment.requirements) resolves or
\* rejects
ConfirmSigned(i) ==
    /\ confirm[i].pc = "sign"
    /\ \/ confirm' = [confirm EXCEPT ![i].pc = "transfer"]
       \/ confirm' = [confirm EXCEPT ![i] =
                         Returned(confirm[i], "Payment processing failed")]
    /\ UNCHANGED <<coreVars, nfdVars, merchantVars, pendingPayment, storedCount,
                   transfers, confirms>>

\* await wallet.executePayment(tokenAddress, merchantAddress, amount) answers;
\* after a successful transfer the request to the merchant is built, which
\* reads state.pendingPayment.taskId
ConfirmTransferred(i) ==
    /\ confirm[i].pc = "transfer"
    /\ \/ /\ transfers' = [transfers EXCEPT ![confirm[i].req] = @ + 1]
          /\ confirm' = [confirm EXCEPT ![i] =
                IF pendingPayment = 0
                THEN Returned([confirm[i] EXCEPT !.paid = TRUE],
                              "Payment sent but couldn't notify merchant")
                ELSE [confirm[i] EXCEPT !.paid = TRUE, !.pc = "notify"]]
       \/ /\ transfers' = transfers
          /\ \E result \in {"Payment transfer failed", "Payment processing failed"} :
                confirm' = [confirm EXCEPT ![i] = Returned(confirm[i], result)]
    /\ UNCHANGED <<coreVars, nfdVars, merchantVars, pendingPayment, storedCount,
                   confirms>>

\* await fetch(MERCHANT_AGENT_URL, ...) and await paymentResponse.json(): the
\* merchant answers 200 with a body, answers another status, or the request
\* fails
ConfirmNotified(i) ==
    /\ confirm[i].pc = "notify"
    /\ \/ /\ pendingPayment' = 0
          /\ confirm' = [confirm EXCEPT ![i] =
                            Returned(confirm[i], "Payment completed")]
       \/ /\ pendingPayment' = pendingPayment
          /\ \E result \in {"Payment sent but merchant server returned error",
                            "Payment sent but couldn't notify merchant"} :
                confirm' = [confirm EXCEPT ![i] = Returned(confirm[i], result)]
    /\ UNCHANGED <<coreVars, nfdVars, merchantVars, storedCount, transfers,
                   confirms>>

\* cancelPayment with a payment pending
CancelPayment ==
    /\ pendingPayment # 0
    /\ pendingPayment' = 0
    /\ UNCHANGED <<coreVars, nfdVars, merchantVars, storedCount, transfers,
                   confirm, confirms>>

NextAgent ==
    \/ SendMessageToMerchant
    \/ \E i \in Invocations : ConfirmBegin(i)
    \/ \E i \in Invocations : ConfirmSigned(i)
    \/ \E i \in Invocations : ConfirmTransferred(i)
    \/ \E i \in Invocations : ConfirmNotified(i)
    \/ CancelPayment

AgentSpec == InitAgent /\ [][NextAgent]_vars

-----------------------------------------------------------------------------
(* Properties of the client agent *)

\* C25: for each stored payment requirement at most one transfer is ever
\* executed, and once a confirmPayment call has returned after a successful
\* transfer the requirement it paid is no longer pending.
C25_AtMostOneTransferPerRequirement ==
    /\ \A r \in 1..storedCount : transfers[r] <= 1
    /\ \A i \in Invocations :
          (~InFlight(i) /\ confirm[i].paid) => pendingPayment # confirm[i].req

\* C26: two confirmPayment invocations for the same pending payment that
\* overlap never both execute the transfer.
C26_OverlappingConfirmsPayOnce ==
    \A i, j \in Invocations :
        (/\ i # j
         /\ confirm[i].req # 0
         /\ confirm[i].req = confirm[j].req
         /\ confirm[i].overlapped
         /\ confirm[j].overlapped)
            => ~(confirm[i].paid /\ confirm[j].paid)

\* C31: a confirmPayment invocation starts signing, calls the transfer and
\* completes a transfer only in a state where a payment is pending; started
\* with no payment pending it returns 'No pending payment to confirm' and
\* does nothing with the wallet.
C31_WalletActsOnlyWhilePending ==
    [][/\ (\E i \in Invocations :
              confirm[i].pc # "sign" /\ confirm'[i].pc = "sign")
            => pendingPayment # 0
       /\ (\E i \in Invocations :
              confirm[i].pc = "sign" /\ confirm'[i].pc = "transfer")
            => pendingPayment # 0
       /\ (storedCount' = storedCount /\ transfers' # transfers)
            => pendingPayment # 0
       /\ (confirms' = confirms + 1 /\ pendingPayment = 0)
            => /\ transfers' = transfers
               /\ \E i \in Invocations :
                     /\ ~InFlight(i)
                     /\ confirm' = [confirm EXCEPT ![i] =
                            Returned(NotStarted, "No pending payment to confirm")]]_vars

-----------------------------------------------------------------------------
(* The merchant agent's tools and the payment status of the order *)

\* PRODUCT.priceAtomicUnits
PriceAtomicUnits == <<"1", "0", "0", "0", "0", "0", "0">>

MerchantTimeoutSeconds == 1200

\* The requirements getProductDetailsAndRequestPayment throws with
MerchantRequirements ==
    [scheme |-> DefaultScheme, network |-> "base-sepolia", payTo |-> "ADDR_B",
     maxAmountRequired |-> PriceAtomicUnits, asset |-> UsdcBaseSepolia,
     maxTimeoutSeconds |-> MerchantTimeoutSeconds]

\* What the user asked for: a product, an empty text, nothing
UserRequests == {"ebook", "", "undefined"}

InitMerchant ==
    /\ requirements = NoRequirements
    /\ payload = NoPayload
    /\ lastRound = 1
    /\ vres = None
    /\ tampered = NotTampered
    /\ txState = "unknown"
    /\ otherConfirmed = FALSE
    /\ SettleIdle
    /\ SignIdle
    /\ TrackerIdle
    /\ AppIdle

\* getProductDetailsAndRequestPayment: an empty request text throws an Error;
\* every other call throws x402PaymentRequiredException with the
\* requirements, and the task becomes payment-required when it has no
\* payment yet
GetProductDetailsAndRequestPayment ==
    /\ \E task \in Tasks, userRequest \in UserRequests :
          UpdateStatus("getProductDetailsAndRequestPayment", task,
                       userRequest # "" /\ CanRequire(paymentStatus[task]),
                       "PaymentRequired",
                       [paymentMetadata[task] EXCEPT
                           !.requirements = MerchantRequirements])
    /\ UNCHANGED <<payload, requirements, verifyVars, chainVars, settleVars,
                   appVars, signVars>>

\* checkOrderStatus: returns the download link
CheckOrderStatus ==
    /\ \E task \in Tasks :
          orderCall' = [task |-> task, status |-> paymentStatus[task],
                        response |-> [status |-> "success",
                                      message |-> "Link to download"]]
    /\ UNCHANGED <<coreVars, nfdVars, agentVars>>

NextMerchant ==
    \/ GetProductDetailsAndRequestPayment
    \/ SubmitPayment
    \/ RecordPaymentVerified
    \/ recordPaymentSuccess
    \/ recordPaymentFailure
    \/ CheckOrderStatus

MerchantSpec == InitMerchant /\ [][NextMerchant]_vars

\* C29: checkOrderStatus returns the download link only for an order whose
\* payment is verified or settled.
C29_LinkOnlyAfterVerified ==
    orderCall # None =>
        /\ orderCall.response.message = "Link to download"
        /\ orderCall.status \in {"PaymentVerified", "PaymentSettled"}

-----------------------------------------------------------------------------
(* The two opt-in checks: isOptedIntoASA of the facilitator and
   AlgorandLocalWallet.isOptedIntoASA, asked about the same account *)

OptInNetworks == Networks \cup {"algorand-mainnet"}

OptInAssets == {Num(0), Num(UsdcTestnet), Num(UsdcMainnet)}

InitOptIn ==
    /\ requirements = NoRequirements
    /\ payload = NoPayload
    /\ lastRound = 1
    /\ vres = None
    /\ tampered = NotTampered
    /\ txState = "unknown"
    /\ otherConfirmed = FALSE
    /\ SettleIdle
    /\ SignIdle
    /\ TrackerIdle
    /\ AppIdle

\* await isOptedIntoASA(network, address, assetId) and, for a wallet of that
\* network and address, await this.isOptedIntoASA(assetId), with the same
\* answer of the node to accountInformation
OptInQuery ==
    /\ \E network \in OptInNetworks, address \in Addrs,
          assetId \in OptInAssets, account \in AccountAnswers :
          optInCall' =
              [network |-> network, address |-> address, assetId |-> assetId,
               account |-> account,
               facilitator |-> isOptedIntoASA(network, address, assetId,
                                              account),
               wallet |-> AlgorandLocalWallet_isOptedIntoASA(assetId, network,
                                                             account)]
    /\ UNCHANGED <<payload, requirements, verifyVars, chainVars, settleVars,
                   signer, signRes, signCall, origin, trackerVars, appVars>>

NextOptIn == OptInQuery

OptInSpec == InitOptIn /\ [][NextOptIn]_vars

\* C37: both checks answer true for asset id 0 whatever the address and
\* whatever the node does, a failing account lookup included, and for the
\* same asset id and node answer the two checks agree.
C37_AssetZeroAlwaysOptedIn ==
    optInCall # None =>
        /\ optInCall.assetId = Num(0)
              => optInCall.facilitator /\ optInCall.wallet
        /\ optInCall.facilitator = optInCall.wallet

====
